---- MODULE Spec2Model ----
(***************************************************************************)
(* The Airtable proxy worker of the wedding RSVP application.              *)
(*                                                                         *)
(* The worker is stateless: all state lives in the backing store (the      *)
(* Guests and Families tables).  A behaviour is one client request handled *)
(* to completion against a store the environment has set up; the request,  *)
(* the backing-store calls it issued and the response it produced are kept *)
(* in `last`.                                                              *)
(*                                                                         *)
(* The repository holds two generations of the route handlers: the current *)
(* worker (Families table, szertartas/lakodalom/transfer fields) and the   *)
(* earlier worker/index.ts (Family ID / Surname grouping).  Both are       *)
(* modelled; the earlier one carries the prefix Legacy.                    *)
(*                                                                         *)
(* JSON objects (request bodies, record fields, write payloads, response   *)
(* bodies, guests) are functions whose DOMAIN is the set of keys present:  *)
(* `x !== undefined` is `k \in DOMAIN obj`.  Guest names are sequences of  *)
(* characters so that trimming and case folding are computed.              *)
(***************************************************************************)
EXTENDS Integers, Sequences, FiniteSets, TLC

VARIABLES store, last

vars == <<store, last>>

\* Number of guest records in the Guests table.
MaxGuests == 3

\* ------------------------------------------------------------------------
\* Identifiers.  Record identifiers are opaque strings in the code; here a
\* guest identifier is a number: 1..MaxGuests are records of the table,
\* DeletedGuest is an identifier no record has, and NoId is the empty
\* string.  Family record identifiers are strings.

GuestIds == 1..MaxGuests
DeletedGuest == MaxGuests + 1
NoId == 0

Fam == "recFam1"
DanglingFam == "recFamGone"

TABLE_NAME == "Guests"
FAMILIES_TABLE_NAME == "Families"

\* ------------------------------------------------------------------------
\* JSON objects

EmptyObj == <<>>

\* The object {k: v} when c holds, {} otherwise.
Opt(k, c, v) == IF c THEN (k :> v) ELSE EmptyObj

Has(obj, k) == k \in DOMAIN obj

\* ------------------------------------------------------------------------
\* Strings of characters: case folding and trimming

LowerChar(c) ==
  CASE c = "A" -> "a"
    [] c = "B" -> "b"
    [] c = "N" -> "n"
    [] c = "O" -> "o"
    [] OTHER -> c

\* String.prototype.toLowerCase / the store formula's LOWER()
Lower(s) == [i \in 1..Len(s) |-> LowerChar(s[i])]

RECURSIVE TrimLeft(_)
TrimLeft(s) == IF s # <<>> /\ Head(s) = " " THEN TrimLeft(Tail(s)) ELSE s

RECURSIVE TrimRight(_)
TrimRight(s) ==
  IF s # <<>> /\ s[Len(s)] = " " THEN TrimRight(SubSeq(s, 1, Len(s) - 1)) ELSE s

\* String.prototype.trim
Trim(s) == TrimRight(TrimLeft(s))

\* Whether needle occurs in hay: the store formula's SEARCH(needle, hay) is
\* truthy exactly then.
Contains(hay, needle) ==
  \E i \in 0..(Len(hay) - Len(needle)) :
    SubSeq(hay, i + 1, i + Len(needle)) = needle

\* ------------------------------------------------------------------------
\* The backing store (external collaborator): two tables of records.  A
\* record is [id, fields]; an empty cell is a key absent from fields.
\*   store.guests   : GuestIds -> fields
\*   store.families : family id -> fields, for the family records that exist

\* An Airtable record as the HTTP API returns it.
GuestRecord(s, g) == [id |-> g, fields |-> s.guests[g]]

\* A cell read inside a formula: an empty cell reads as the empty string.
Cell(fields, k, blank) == IF Has(fields, k) THEN fields[k] ELSE blank

\* filterByFormula, evaluated by the store on one record.
EvalFilter(filter, rec) ==
  CASE filter.f = "LowerEq" ->
         Lower(Cell(rec.fields, filter.field, <<>>)) = Lower(filter.value)
    [] filter.f = "Search" ->
         /\ Len(filter.needle) > 0
         /\ Contains(Lower(Cell(rec.fields, filter.field, <<>>)), Lower(filter.needle))
    [] filter.f = "Eq" ->
         Cell(rec.fields, filter.field, "") = filter.value
    [] filter.f = "OrRecordId" ->
         \E i \in 1..Len(filter.ids) : rec.id = filter.ids[i]
    [] OTHER -> TRUE

\* The records of the Guests table that pass the filter, in table order.
RECURSIVE SelectFrom(_, _, _)
SelectFrom(s, filter, g) ==
  IF g > MaxGuests THEN <<>>
  ELSE (IF EvalFilter(filter, GuestRecord(s, g)) THEN <<GuestRecord(s, g)>> ELSE <<>>)
       \o SelectFrom(s, filter, g + 1)

ListRecords(s, filter) == SelectFrom(s, filter, 1)

\* How one HTTP exchange with the store ends:
\*   "ok"     the store answers the request as its data dictates
\*   "status" the store answers with a non-success status and a JSON error body
\*   "empty"  a success status whose body lacks the expected records/fields
\*   "reject" the fetch promise rejects (the store is unreachable)
Modes == {"ok", "status", "empty", "reject"}

ErrorJson == [error |-> [message |-> "upstream error"]]

Rejected == [rejected |-> TRUE, ok |-> FALSE, json |-> EmptyObj]
HttpError == [rejected |-> FALSE, ok |-> FALSE, json |-> ErrorJson]
HttpOk(json) == [rejected |-> FALSE, ok |-> TRUE, json |-> json]

\* GET <table>?filterByFormula=...  (or the whole table)
StoreList(s, mode, filter) ==
  CASE mode = "reject" -> Rejected
    [] mode = "status" -> HttpError
    [] mode = "empty"  -> HttpOk(EmptyObj)
    [] OTHER -> HttpOk([records |-> ListRecords(s, filter)])

\* GET Families/<id>
StoreGetFamily(s, mode, fid) ==
  CASE mode = "reject" -> Rejected
    [] mode = "status" -> HttpError
    [] mode = "empty"  -> HttpOk(EmptyObj)
    [] OTHER -> IF fid \in DOMAIN s.families
                THEN HttpOk([id |-> fid, fields |-> s.families[fid]])
                ELSE HttpError

\* PATCH sets the given cells of one record and leaves its other cells as
\* they are.
Patch(fields, payload) ==
  [k \in (DOMAIN fields) \cup (DOMAIN payload) |->
     IF k \in DOMAIN payload THEN payload[k] ELSE fields[k]]

\* Whether a PATCH ending in `mode` is applied by the store.
Applies(mode, exists) == mode = "ok" /\ exists

\* PATCH Guests {records: [{id, fields}]}: the store after the call.
StoreAfterPatchGuest(s, mode, id, payload) ==
  IF Applies(mode, id \in GuestIds)
  THEN [s EXCEPT !.guests[id] = Patch(@, payload)]
  ELSE s

\* ... and the response to it.
StorePatchGuest(s, mode, id, payload) ==
  CASE mode = "reject" -> Rejected
    [] mode = "status" -> HttpError
    [] mode = "empty"  -> HttpOk(EmptyObj)
    [] OTHER -> IF id \in GuestIds
                THEN HttpOk([records |->
                       <<GuestRecord(StoreAfterPatchGuest(s, mode, id, payload), id)>>])
                ELSE HttpError

StoreAfterPatchFamily(s, mode, fid, payload) ==
  IF Applies(mode, fid \in DOMAIN s.families)
  THEN [s EXCEPT !.families[fid] = Patch(@, payload)]
  ELSE s

StorePatchFamily(s, mode, fid, payload) ==
  CASE mode = "reject" -> Rejected
    [] mode = "status" -> HttpError
    [] mode = "empty"  -> HttpOk(EmptyObj)
    [] OTHER -> IF fid \in DOMAIN s.families
                THEN HttpOk([records |->
                       <<[id |-> fid,
                          fields |-> StoreAfterPatchFamily(s, mode, fid, payload).families[fid]]>>])
                ELSE HttpError

\* The call as airtableRequest issues it (method, table/endpoint, body).
airtableRequest(method, endpoint, body) ==
  [method |-> method, endpoint |-> endpoint]
  @@ Opt("body", body # EmptyObj /\ method \in {"POST", "PATCH"}, body)

\* response.json(): the parsed body; `records` is undefined when absent.
HasRecords(resp) == Has(resp.json, "records") /\ Len(resp.json.records) > 0

\* ------------------------------------------------------------------------
\* Field reshaping

\* A cell whose value is null (the store omits empty cells; a null reaches
\* the mapping only in a hand-made record, which lists such keys in `nulls`).
IsNull(rec, k) == Has(rec, "nulls") /\ k \in rec.nulls

\* `(x as string) || undefined`, `x || ...`: x is defined, not null, not "".
Truthy(rec, k, blank) ==
  Has(rec.fields, k) /\ ~IsNull(rec, k) /\ rec.fields[k] # blank

\* `x || d`: d also when x is false.
CoalesceFalsy(rec, k, d) ==
  IF Has(rec.fields, k) /\ ~IsNull(rec, k) /\ rec.fields[k] # FALSE THEN rec.fields[k] ELSE d

\* `x ?? d`: d when x is undefined or null.
Coalesce(rec, k, d) ==
  IF Has(rec.fields, k) /\ ~IsNull(rec, k) THEN rec.fields[k] ELSE d

\* `(x as string) || undefined` as a key of the reshaped guest: JSON drops an
\* undefined key.
OptString(rec, key, k) == Opt(key, Truthy(rec, k, ""), rec.fields[k])

\* lakodalom read from the Szertartas cell.
mapAirtableRecordSwapped(rec) ==
  ("id" :> rec.id)
  @@ ("name" :> (IF Truthy(rec, "Full name", <<>>) THEN rec.fields["Full name"]
                 ELSE IF Truthy(rec, "Name", <<>>) THEN rec.fields["Name"]
                 ELSE <<>>))
  @@ OptString(rec, "surname", "Surname")
  @@ OptString(rec, "familyId", "Family ID")
  @@ ("attending" :> Coalesce(rec, "Attending", TRUE))
  @@ OptString(rec, "email", "Email")
  @@ OptString(rec, "phone", "Phone")
  @@ OptString(rec, "dietaryRestrictions", "Dietary Restrictions")
  @@ OptString(rec, "notes", "Notes")
  @@ OptString(rec, "submittedAt", "Submitted At")
  @@ ("szertartas" :> Coalesce(rec, "Szertartas", FALSE))
  @@ ("lakodalom" :> Coalesce(rec, "Szertartas", FALSE))
  @@ ("transfer" :> Coalesce(rec, "Transfer", FALSE))

mapAirtableRecord(rec) ==
  ("id" :> rec.id)
  @@ ("name" :> (IF Truthy(rec, "Full name", <<>>) THEN rec.fields["Full name"]
                 ELSE IF Truthy(rec, "Name", <<>>) THEN rec.fields["Name"]
                 ELSE <<>>))
  @@ OptString(rec, "surname", "Surname")
  @@ OptString(rec, "familyId", "Family ID")
  @@ ("attending" :> Coalesce(rec, "Attending", TRUE))
  @@ OptString(rec, "email", "Email")
  @@ OptString(rec, "phone", "Phone")
  @@ OptString(rec, "dietaryRestrictions", "Dietary Restrictions")
  @@ OptString(rec, "notes", "Notes")
  @@ OptString(rec, "submittedAt", "Submitted At")
  @@ ("szertartas" :> Coalesce(rec, "Szertartas", FALSE))
  @@ ("lakodalom" :> Coalesce(rec, "Lakodalom", FALSE))
  @@ ("transfer" :> Coalesce(rec, "Transfer", FALSE))

\* records.map(mapAirtableRecord)
MapRecords(records) == [i \in 1..Len(records) |-> mapAirtableRecord(records[i])]

\* mapAirtableRecord of worker/index.ts: `name` is the Name cell as it is
\* (undefined when empty, null when null: the key is then listed in `nulls`),
\* and there are no per-event flags.
LegacyMapAirtableRecord(rec) ==
  ("id" :> rec.id)
  @@ Opt("name", Has(rec.fields, "Name"), rec.fields["Name"])
  @@ Opt("nulls", IsNull(rec, "Name"), {"name"})
  @@ OptString(rec, "surname", "Surname")
  @@ OptString(rec, "familyId", "Family ID")
  @@ ("attending" :> Coalesce(rec, "Attending", TRUE))
  @@ OptString(rec, "email", "Email")
  @@ OptString(rec, "phone", "Phone")
  @@ OptString(rec, "dietaryRestrictions", "Dietary Restrictions")
  @@ OptString(rec, "notes", "Notes")
  @@ OptString(rec, "submittedAt", "Submitted At")

LegacyMapRecords(records) ==
  [i \in 1..Len(records) |-> LegacyMapAirtableRecord(records[i])]

\* ------------------------------------------------------------------------
\* Responses of the worker

\* c.json(body, status)
Json(status, body) == [status |-> status, body |-> body]

\* The zValidator hook's answer to a body that fails the schema.
ValidationFailure == Json(400, [success |-> FALSE, error |-> "validation"])

\* catch (error): c.json({ error: message }, 500)
ServerError(message) == Json(500, [error |-> message])

\* One call issued to the store and how it ended.
Exchange(call, resp) == [request |-> call, response |-> resp]

\* What one handled request leaves behind: the response and the calls issued
\* to the store, in order.
Outcome(response, calls) == [response |-> response, calls |-> calls]

\* ------------------------------------------------------------------------
\* POST /verify-name

\* The schema without min(1).
VerifyNameRequestSchemaAnyString(body) == Has(body, "name")

\* VerifyNameRequestSchema: { name: z.string().min(1) }
VerifyNameRequestSchema(body) == Has(body, "name") /\ Len(body.name) >= 1

NotFoundWithoutFlag == Json(404, [error |-> "Sajnos ilyen nevu vendeg nem talalhato a listan"])

NotFound ==
  Json(404, [error |-> "Sajnos ilyen nevu vendeg nem talalhato a listan", found |-> FALSE])

\* The search as a substring search on Full name.
SearchCallSubstring(name) ==
  airtableRequest("GET",
    [table |-> TABLE_NAME,
     filter |-> [f |-> "Search", field |-> "Full name", needle |-> Trim(name)]],
    EmptyObj)

\* The search call of the handler: exact match on Full name, case-insensitive.
SearchCall(name) ==
  airtableRequest("GET",
    [table |-> TABLE_NAME,
     filter |-> [f |-> "LowerEq", field |-> "Full name", value |-> Trim(name)]],
    EmptyObj)

FamilyCall(familyRecordId) ==
  airtableRequest("GET", [table |-> FAMILIES_TABLE_NAME, record |-> familyRecordId], EmptyObj)

\* A call that asks for the first member only.
MembersCallFirstOnly(memberIds) ==
  airtableRequest("GET",
    [table |-> TABLE_NAME, filter |-> [f |-> "OrRecordId", ids |-> <<memberIds[1]>>]],
    EmptyObj)

\* One batched call: OR(RECORD_ID() = "id1", RECORD_ID() = "id2", ...)
MembersCall(memberIds) ==
  airtableRequest("GET",
    [table |-> TABLE_NAME, filter |-> [f |-> "OrRecordId", ids |-> memberIds]],
    EmptyObj)

\* Whether the member fetch result is refused (throws).
MembersMissing(guestsResponse, memberIds) == ~HasRecords(guestsResponse)

\* The handler from the member fetch on (the family record is in hand).
VerifyMembers(s, guest, familyRecordId, familyFields, memberIds, m3, calls) ==
  LET call == MembersCall(memberIds)
      guestsResponse == StoreList(s, m3, call.endpoint.filter)
      calls3 == Append(calls, Exchange(call, guestsResponse))
  IN IF guestsResponse.rejected THEN Outcome(ServerError("fetch failed"), calls3)
     ELSE IF ~guestsResponse.ok
       THEN Outcome(ServerError("Failed to fetch guest records"), calls3)
     ELSE IF MembersMissing(guestsResponse, memberIds)
       THEN Outcome(ServerError("No guest records found for family members"), calls3)
     ELSE Outcome(
            Json(200,
              [success |-> TRUE, found |-> TRUE, guest |-> guest,
               familyMembers |-> MapRecords(guestsResponse.json.records),
               familyId |-> familyRecordId]
              @@ Opt("familyEmail",
                     Has(familyFields, "Email") /\ familyFields["Email"] # "",
                     familyFields["Email"])
              @@ Opt("familyNotes",
                     Has(familyFields, "Notes") /\ familyFields["Notes"] # "",
                     familyFields["Notes"])),
            calls3)

\* `familyRelation && familyRelation.length > 0`
HasFamilyRelation(guestRecord) ==
  /\ Has(guestRecord.fields, "Family name")
  /\ Len(guestRecord.fields["Family name"]) > 0

NoFamilyRelationLenient(guest, calls) ==
  Outcome(Json(200, [success |-> TRUE, found |-> TRUE, guest |-> guest,
                     familyMembers |-> <<guest>>]), calls)

\* throw new Error('Guest does not have a family relation')
NoFamilyRelation(guest, calls) ==
  Outcome(ServerError("Guest does not have a family relation"), calls)

FamilyUnresolvedPartial(guest, message, calls) ==
  Outcome(Json(200, [success |-> TRUE, found |-> TRUE, guest |-> guest,
                     familyMembers |-> <<guest>>]), calls)

\* throw new Error(...) when the family record cannot be fetched or lists no
\* member: the catch turns it into a 500.
FamilyUnresolved(guest, message, calls) == Outcome(ServerError(message), calls)

\* The handler from the family record fetch on (a guest matched).
VerifyFamily(s, guestRecord, m2, m3, calls) ==
  LET guest == mapAirtableRecord(guestRecord)
  IN IF ~HasFamilyRelation(guestRecord) THEN NoFamilyRelation(guest, calls)
     ELSE
       LET familyRecordId == guestRecord.fields["Family name"][1]
           call == FamilyCall(familyRecordId)
           familyRecordResponse == StoreGetFamily(s, m2, familyRecordId)
           calls2 == Append(calls, Exchange(call, familyRecordResponse))
           familyFields == IF Has(familyRecordResponse.json, "fields")
                           THEN familyRecordResponse.json.fields ELSE EmptyObj
           hasMembers == Has(familyFields, "Members") /\ Len(familyFields["Members"]) > 0
       IN IF familyRecordResponse.rejected
            THEN Outcome(ServerError("fetch failed"), calls2)
          ELSE IF ~familyRecordResponse.ok
            THEN FamilyUnresolved(guest, "Sajnos nem sikerult a csalad adatait lekerdezni", calls2)
          ELSE IF ~hasMembers
            THEN FamilyUnresolved(guest, "Sajnos a csalad tagjai nem talalhatok a listan", calls2)
          ELSE VerifyMembers(s, guest, familyRecordId, familyFields,
                             familyFields["Members"], m3, calls2)

\* The whole handler, after validation: m1, m2, m3 are how the search, the
\* family fetch and the member fetch end when they are issued.
VerifyNameHandler(s, name, m1, m2, m3) ==
  LET call == SearchCall(name)
      searchResponse == StoreList(s, m1, call.endpoint.filter)
      calls1 == <<Exchange(call, searchResponse)>>
  IN IF searchResponse.rejected THEN Outcome(ServerError("fetch failed"), calls1)
     ELSE IF ~HasRecords(searchResponse) THEN Outcome(NotFound, calls1)
     ELSE VerifyFamily(s, searchResponse.json.records[1], m2, m3, calls1)

\* ------------------------------------------------------------------------
\* POST /verify-name of worker/index.ts

\* Substring search on Name, case-insensitive.
LegacySearchCall(name) ==
  airtableRequest("GET",
    [table |-> TABLE_NAME,
     filter |-> [f |-> "Search", field |-> "Name", needle |-> Lower(name)]],
    EmptyObj)

\* The lookup sent as a write.
EqCallAsWrite(field, value) ==
  airtableRequest("PATCH",
    [table |-> TABLE_NAME, filter |-> [f |-> "Eq", field |-> field, value |-> value]],
    [records |-> <<>>])

EqCall(field, value) ==
  airtableRequest("GET",
    [table |-> TABLE_NAME, filter |-> [f |-> "Eq", field |-> field, value |-> value]],
    EmptyObj)

\* `data.records?.map(mapAirtableRecord) || []`
LegacyRecordsOrNone(resp) ==
  IF Has(resp.json, "records") THEN LegacyMapRecords(resp.json.records) ELSE <<>>

LegacyFound(guest, familyMembers) ==
  Json(200, [success |-> TRUE, found |-> TRUE, guest |-> guest,
             familyMembers |-> familyMembers])

\* Family members by Surname whenever the guest has one.
LegacyVerifyGroupBySurname(s, guest, m2, calls) ==
  IF Has(guest, "familyId") \/ Has(guest, "surname")
  THEN LET call == IF Has(guest, "surname") THEN EqCall("Surname", guest.surname)
                   ELSE EqCall("Family ID", guest.familyId)
           resp == StoreList(s, m2, call.endpoint.filter)
           calls2 == Append(calls, Exchange(call, resp))
       IN IF resp.rejected THEN Outcome(ServerError("fetch failed"), calls2)
          ELSE Outcome(LegacyFound(guest, LegacyRecordsOrNone(resp)), calls2)
  ELSE Outcome(LegacyFound(guest, <<guest>>), calls)

\* Family members by Family ID, else by Surname, else the guest alone.
LegacyVerifyGroup(s, guest, m2, calls) ==
  IF Has(guest, "familyId") \/ Has(guest, "surname")
  THEN LET call == IF Has(guest, "familyId") THEN EqCall("Family ID", guest.familyId)
                   ELSE EqCall("Surname", guest.surname)
           resp == StoreList(s, m2, call.endpoint.filter)
           calls2 == Append(calls, Exchange(call, resp))
       IN IF resp.rejected THEN Outcome(ServerError("fetch failed"), calls2)
          ELSE Outcome(LegacyFound(guest, LegacyRecordsOrNone(resp)), calls2)
  ELSE Outcome(LegacyFound(guest, <<guest>>), calls)

LegacyVerifyNameHandler(s, name, m1, m2) ==
  LET call == LegacySearchCall(name)
      searchResponse == StoreList(s, m1, call.endpoint.filter)
      calls1 == <<Exchange(call, searchResponse)>>
  IN IF searchResponse.rejected THEN Outcome(ServerError("fetch failed"), calls1)
     ELSE IF ~HasRecords(searchResponse)
       THEN Outcome(Json(404, [error |-> "Name not found in guest list", found |-> FALSE]),
                    calls1)
     ELSE LegacyVerifyGroup(s, LegacyMapAirtableRecord(searchResponse.json.records[1]),
                            m2, calls1)

\* ------------------------------------------------------------------------
\* GET /guests and GET /guests/family/:familyId

AllCall == airtableRequest("GET", [table |-> TABLE_NAME], EmptyObj)

\* `data.records?.map(mapAirtableRecord) || []`
RecordsOrNone(resp) ==
  IF Has(resp.json, "records") THEN MapRecords(resp.json.records) ELSE <<>>

\* The list call issued a second time when the first one did not succeed.
ListOutcomeRetried(resp, guests, calls) ==
  IF resp.rejected THEN Outcome(ServerError("fetch failed"), calls \o calls)
  ELSE Outcome(Json(200, [success |-> TRUE, guests |-> guests]),
               IF resp.ok THEN calls ELSE calls \o calls)

\* The list, taken from whatever the store answered.
ListOutcome(resp, guests, calls) ==
  IF resp.rejected THEN Outcome(ServerError("fetch failed"), calls)
  ELSE Outcome(Json(200, [success |-> TRUE, guests |-> guests]), calls)

GuestsHandler(s, m1) ==
  LET resp == StoreList(s, m1, [f |-> "All"])
  IN ListOutcome(resp, RecordsOrNone(resp), <<Exchange(AllCall, resp)>>)

LegacyGuestsHandler(s, m1) ==
  LET resp == StoreList(s, m1, [f |-> "All"])
  IN ListOutcome(resp, LegacyRecordsOrNone(resp), <<Exchange(AllCall, resp)>>)

FamilyIdNeverMissing(familyId) == FALSE

\* `if (!familyId)`: the route parameter is missing or empty.
FamilyIdMissing(familyId) == familyId = ""

FamilyIdRequired == Json(400, [error |-> "Family ID is required"])

GuestsFamilyHandler(s, familyId, m1) ==
  IF FamilyIdMissing(familyId) THEN Outcome(FamilyIdRequired, <<>>)
  ELSE LET call == EqCall("Family ID", familyId)
           resp == StoreList(s, m1, call.endpoint.filter)
       IN ListOutcome(resp, RecordsOrNone(resp), <<Exchange(call, resp)>>)

LegacyGuestsFamilyHandler(s, familyId, m1) ==
  IF FamilyIdMissing(familyId) THEN Outcome(FamilyIdRequired, <<>>)
  ELSE LET call == EqCall("Family ID", familyId)
           resp == StoreList(s, m1, call.endpoint.filter)
       IN ListOutcome(resp, LegacyRecordsOrNone(resp), <<Exchange(call, resp)>>)

\* ------------------------------------------------------------------------
\* POST /rsvp

\* RSVPRequestSchema of the current worker: guestId is a non-empty string
\* (here: a number other than NoId).
RSVPRequestSchema(body) == Has(body, "guestId") /\ body.guestId # NoId

\* A full replace: an omitted dietary note is written as the empty string.
BuildFieldsFullReplace(body) ==
  Opt("Szertartas", Has(body, "szertartas"), body.szertartas)
  @@ Opt("Lakodalom", Has(body, "lakodalom"), body.lakodalom)
  @@ ("Dietary Restrictions" :>
        (IF Has(body, "dietaryRestrictions") THEN body.dietaryRestrictions ELSE ""))
  @@ Opt("Transfer", Has(body, "transfer"), body.transfer)

\* `if (x !== undefined) fields[Column] = x`, for the four guest fields.
BuildFields(body) ==
  Opt("Szertartas", Has(body, "szertartas"), body.szertartas)
  @@ Opt("Lakodalom", Has(body, "lakodalom"), body.lakodalom)
  @@ Opt("Dietary Restrictions", Has(body, "dietaryRestrictions"), body.dietaryRestrictions)
  @@ Opt("Transfer", Has(body, "transfer"), body.transfer)

\* Both family fields written only when non-empty.
BuildFamilyFieldsNonEmpty(body) ==
  Opt("Email", Has(body, "familyEmail") /\ body.familyEmail # "", body.familyEmail)
  @@ Opt("Notes", Has(body, "familyNotes") /\ body.familyNotes # "", body.familyNotes)

\* `if (familyEmail) ...; if (familyNotes !== undefined) ...`
BuildFamilyFields(body) ==
  Opt("Email", Has(body, "familyEmail") /\ body.familyEmail # "", body.familyEmail)
  @@ Opt("Notes", Has(body, "familyNotes"), body.familyNotes)

\* The update sent as a create: POST, no record identifier.
PatchCallAsCreate(table, id, fields) ==
  airtableRequest("POST", [table |-> table], [records |-> <<[fields |-> fields]>>])

PatchCall(table, id, fields) ==
  airtableRequest("PATCH", [table |-> table],
                  [records |-> <<[id |-> id, fields |-> fields]>>])

\* What the handler leaves behind when it also writes: the outcome and the
\* store after it.
Written(outcome, s) ==
  [response |-> outcome.response, calls |-> outcome.calls, store |-> s]

RsvpSuccess(updatedGuest) == Json(200, [success |-> TRUE, guest |-> updatedGuest])

\* The family update recorded ahead of the guest update.
RsvpFamilyFirst(s1, body, updatedGuest, m2, calls) ==
  LET familyFields == BuildFamilyFields(body)
  IN IF Has(body, "familyId") /\ body.familyId # "" /\ DOMAIN familyFields # {}
     THEN LET call == PatchCall(FAMILIES_TABLE_NAME, body.familyId, familyFields)
              resp == StorePatchFamily(s1, m2, body.familyId, familyFields)
              s2 == StoreAfterPatchFamily(s1, m2, body.familyId, familyFields)
              calls2 == <<Exchange(call, resp)>> \o calls
          IN IF resp.rejected
             THEN Written(Outcome(ServerError("fetch failed"), calls2), s2)
             ELSE Written(Outcome(RsvpSuccess(updatedGuest), calls2), s2)
     ELSE Written(Outcome(RsvpSuccess(updatedGuest), calls), s1)

\* The family update, issued when familyId is given and there is something
\* to write; s1 is the store after the guest update.
RsvpFamily(s1, body, updatedGuest, m2, calls) ==
  LET familyFields == BuildFamilyFields(body)
  IN IF Has(body, "familyId") /\ body.familyId # "" /\ DOMAIN familyFields # {}
     THEN LET call == PatchCall(FAMILIES_TABLE_NAME, body.familyId, familyFields)
              resp == StorePatchFamily(s1, m2, body.familyId, familyFields)
              s2 == StoreAfterPatchFamily(s1, m2, body.familyId, familyFields)
              calls2 == Append(calls, Exchange(call, resp))
          IN IF resp.rejected
             THEN Written(Outcome(ServerError("fetch failed"), calls2), s2)
             ELSE Written(Outcome(RsvpSuccess(updatedGuest), calls2), s2)
     ELSE Written(Outcome(RsvpSuccess(updatedGuest), calls), s1)

RsvpHandler(s, body, m1, m2) ==
  LET fields == BuildFields(body)
      call == PatchCall(TABLE_NAME, body.guestId, fields)
      updateResponse == StorePatchGuest(s, m1, body.guestId, fields)
      s1 == StoreAfterPatchGuest(s, m1, body.guestId, fields)
      calls1 == <<Exchange(call, updateResponse)>>
  IN IF updateResponse.rejected
       THEN Written(Outcome(ServerError("fetch failed"), calls1), s1)
     ELSE IF ~updateResponse.ok
       THEN Written(Outcome(ServerError(updateResponse.json.error.message), calls1), s1)
     ELSE IF ~HasRecords(updateResponse)
       THEN Written(Outcome(ServerError("No records returned from update"), calls1), s1)
     ELSE RsvpFamily(s1, body, mapAirtableRecord(updateResponse.json.records[1]), m2, calls1)

\* ------------------------------------------------------------------------
\* POST /rsvp of worker/index.ts

\* RSVPRequestSchema of worker/types.ts: the keys it declares; z.object
\* strips every other key of the body.
LegacyRSVPKeys == {"guestId", "attending", "email", "phone", "dietaryRestrictions", "notes"}

LegacyRSVPParse(body) == [k \in (DOMAIN body) \cap LegacyRSVPKeys |-> body[k]]

\* new Date().toISOString()
Now == "2026-01-01T00:00:00.000Z"

LegacyBuildFields(body) ==
  Opt("Attending", Has(body, "attending"), body.attending)
  @@ Opt("Email", Has(body, "email") /\ body.email # "", body.email)
  @@ Opt("Phone", Has(body, "phone") /\ body.phone # "", body.phone)
  @@ Opt("Dietary Restrictions",
         Has(body, "dietaryRestrictions") /\ body.dietaryRestrictions # "",
         body.dietaryRestrictions)
  @@ Opt("Notes", Has(body, "notes") /\ body.notes # "", body.notes)
  @@ ("Submitted At" :> Now)

LegacyRsvpHandler(s, rawBody, m1) ==
  LET body == LegacyRSVPParse(rawBody)
      fields == LegacyBuildFields(body)
      call == PatchCall(TABLE_NAME, body.guestId, fields)
      updateResponse == StorePatchGuest(s, m1, body.guestId, fields)
      s1 == StoreAfterPatchGuest(s, m1, body.guestId, fields)
      calls1 == <<Exchange(call, updateResponse)>>
  IN IF updateResponse.rejected
       THEN Written(Outcome(ServerError("fetch failed"), calls1), s1)
     ELSE IF ~updateResponse.ok
       THEN Written(Outcome(ServerError(updateResponse.json.error.message), calls1), s1)
     ELSE IF ~HasRecords(updateResponse)
       THEN Written(Outcome(ServerError("No records returned from update"), calls1), s1)
     ELSE Written(Outcome(Json(200, [success |-> TRUE,
                    guest |-> LegacyMapAirtableRecord(updateResponse.json.records[1])]),
                    calls1), s1)

\* ------------------------------------------------------------------------
\* The stores and requests the read routes are checked on

\* Guest 1 is "An", 2 is "Bo", 3 is "Ann", 4 is "Boo", ...
FullName(g) ==
  LET extra == (g - 1) \div 2
  IN IF g % 2 = 1 THEN <<"A", "n">> \o [i \in 1..extra |-> "n"]
     ELSE <<"B", "o">> \o [i \in 1..extra |-> "o"]

AllMembers == [i \in 1..MaxGuests |-> i]

\* The family's Members cell: absent, every guest, every guest and a record
\* deleted since, only a deleted record, or every guest but the first.
MemberLists ==
  {<<>>, AllMembers, <<DeletedGuest>> \o AllMembers, <<DeletedGuest>>, Tail(AllMembers)}

\* The guest's link to the Families table: none, the family, or a family
\* record that no longer exists.  Guests from the third on are linked.
RelationsOf(g) ==
  IF g = 1 THEN {<<>>, <<Fam>>, <<DanglingFam>>}
  ELSE IF g = 2 THEN {<<>>, <<Fam>>}
  ELSE {<<Fam>>}

\* A guest row: names, grouping and the RSVP cells `rsvp`.  The odd guests
\* share a surname, the even ones have none.
GuestFields(g, relation, rsvp) ==
  ("Full name" :> FullName(g))
  @@ ("Name" :> FullName(g))
  @@ Opt("Surname", g % 2 = 1, "Kovacs")
  @@ Opt("Family name", relation # <<>>, relation)
  @@ Opt("Family ID", relation # <<>>, "kovacs-1")
  @@ rsvp

FamilyFields(members, email, notes) ==
  Opt("Members", members # <<>>, members)
  @@ Opt("Email", email # "", email)
  @@ Opt("Notes", notes # "", notes)

\* RSVP cells already filled in for the odd guests.
DefaultRsvp(g) ==
  IF g % 2 = 1 THEN ("Lakodalom" :> TRUE) @@ ("Dietary Restrictions" :> "vegan")
  ELSE EmptyObj

ReadStores ==
  { [guests |-> [g \in GuestIds |-> GuestFields(g, rel[g], DefaultRsvp(g))],
     families |-> (Fam :> FamilyFields(members, "e@x.hu", ""))] :
      rel \in {r \in [GuestIds -> {<<>>, <<Fam>>, <<DanglingFam>>}] :
                 \A g \in GuestIds : r[g] \in RelationsOf(g)},
      members \in MemberLists }

\* Names a client sends: stored names in another case, padded, a fragment of
\* a stored name, a name nobody has, blanks only, the empty string.
VerifyNames ==
  {<<"a", "n">>, <<"B", "O">>, <<" ", "A", "n", "n", " ">>, <<"n">>,
   <<"o", "b">>, <<" ">>, <<>>}

VerifyBodies == {("name" :> n) : n \in VerifyNames} \cup {EmptyObj}

Idle ==
  [op |-> "none", impl |-> "none", req |-> EmptyObj,
   response |-> Json(0, EmptyObj), calls |-> <<>>]

\* The request handled, by which generation of the handlers, and its outcome.
Handled(op, impl, req, outcome) ==
  [op |-> op, impl |-> impl, req |-> req,
   response |-> outcome.response, calls |-> outcome.calls]

InitRead == store \in ReadStores /\ last = Idle

VerifyName ==
  /\ last.op = "none"
  /\ \E body \in VerifyBodies, m1, m2, m3 \in Modes :
       last' = Handled("verify-name", "current", body,
                 IF ~VerifyNameRequestSchema(body) THEN Outcome(ValidationFailure, <<>>)
                 ELSE VerifyNameHandler(store, body.name, m1, m2, m3))
  /\ UNCHANGED store

LegacyVerifyName ==
  /\ last.op = "none"
  /\ \E body \in VerifyBodies, m1, m2 \in Modes :
       last' = Handled("verify-name", "legacy", body,
                 IF ~VerifyNameRequestSchema(body) THEN Outcome(ValidationFailure, <<>>)
                 ELSE LegacyVerifyNameHandler(store, body.name, m1, m2))
  /\ UNCHANGED store

Guests ==
  /\ last.op = "none"
  /\ \E m1 \in Modes :
       last' = Handled("guests", "current", EmptyObj, GuestsHandler(store, m1))
  /\ UNCHANGED store

LegacyGuests ==
  /\ last.op = "none"
  /\ \E m1 \in Modes :
       last' = Handled("guests", "legacy", EmptyObj, LegacyGuestsHandler(store, m1))
  /\ UNCHANGED store

\* The family identifiers a client asks for: none, the family's, an unknown one.
FamilyParams == {"", "kovacs-1", "nagy-2"}

GuestsFamily ==
  /\ last.op = "none"
  /\ \E familyId \in FamilyParams, m1 \in Modes :
       last' = Handled("guests-family", "current", [familyId |-> familyId],
                 GuestsFamilyHandler(store, familyId, m1))
  /\ UNCHANGED store

LegacyGuestsFamily ==
  /\ last.op = "none"
  /\ \E familyId \in FamilyParams, m1 \in Modes :
       last' = Handled("guests-family", "legacy", [familyId |-> familyId],
                 LegacyGuestsFamilyHandler(store, familyId, m1))
  /\ UNCHANGED store

NextRead ==
  \/ VerifyName
  \/ LegacyVerifyName
  \/ Guests
  \/ LegacyGuests
  \/ GuestsFamily
  \/ LegacyGuestsFamily

SpecRead == InitRead /\ [][NextRead]_vars

\* ------------------------------------------------------------------------
\* The stores and requests the write route is checked on

\* The first guest's RSVP cells and the family's Email and Notes before the
\* request: nothing filled in; a reception acceptance with a dietary note in
\* a family with contact data; every guest cell filled in.
RsvpProfiles ==
  {<<EmptyObj, "", "">>,
   <<("Lakodalom" :> TRUE) @@ ("Dietary Restrictions" :> "vegan"), "e@x.hu", "old note">>,
   <<("Szertartas" :> TRUE) @@ ("Lakodalom" :> FALSE) @@ ("Transfer" :> TRUE)
       @@ ("Dietary Restrictions" :> ""), "", "">>}

RsvpStores ==
  { [guests |-> [g \in GuestIds |->
                   GuestFields(g, <<Fam>>, IF g = 1 THEN p[1] ELSE DefaultRsvp(g))],
     families |-> (Fam :> FamilyFields(AllMembers, p[2], p[3]))] :
      p \in RsvpProfiles }

\* undefined, or one of the values
Maybe(values) == {{}} \cup {{v} : v \in values}

OptOf(k, maybe) == IF maybe = {} THEN EmptyObj ELSE (k :> (CHOOSE v \in maybe : TRUE))

\* Bodies of POST /rsvp: a guest identifier (of a record, of no record, empty
\* or missing) and any subset of the optional fields; and family fields
\* under an empty family identifier.
RsvpBodies ==
  { OptOf("guestId", id) @@ OptOf("szertartas", sz) @@ OptOf("lakodalom", la)
    @@ OptOf("dietaryRestrictions", di) @@ OptOf("transfer", tr)
    @@ OptOf("familyId", fid) @@ OptOf("familyEmail", fe) @@ OptOf("familyNotes", fn) :
      id \in {{g} : g \in GuestIds \cup {DeletedGuest}},
      sz \in Maybe(BOOLEAN), la \in Maybe(BOOLEAN),
      di \in Maybe({"", "nut allergy"}), tr \in Maybe(BOOLEAN),
      fid \in Maybe({Fam}), fe \in Maybe({"", "new@x.hu"}),
      fn \in Maybe({"", "new note"}) }
  \cup { OptOf("guestId", id) @@ ("lakodalom" :> TRUE) : id \in Maybe({NoId}) }
  \cup { ("guestId" :> 1) @@ ("familyId" :> "") @@ ("familyEmail" :> "new@x.hu")
         @@ ("familyNotes" :> "new note") }

\* Bodies sent to the handler of worker/index.ts: its own fields, and a
\* field of the current contract.
LegacyRsvpBodies ==
  { OptOf("guestId", id) @@ OptOf("attending", at) @@ OptOf("email", em)
    @@ OptOf("phone", ph) @@ OptOf("dietaryRestrictions", di) @@ OptOf("notes", no)
    @@ OptOf("lakodalom", la) :
      id \in {{g} : g \in GuestIds \cup {DeletedGuest}},
      at \in Maybe(BOOLEAN), em \in Maybe({"", "a@x.hu"}), ph \in Maybe({"+36"}),
      di \in Maybe({"", "nut allergy"}), no \in Maybe({"", "hello"}),
      la \in Maybe({FALSE}) }
  \cup { OptOf("guestId", id) @@ ("attending" :> TRUE) : id \in Maybe({NoId}) }

InitRsvp == store \in RsvpStores /\ last = Idle

\* How the family update can end: it is issued only after a guest update
\* that succeeded, so on every other path its outcome is never drawn.
FamilyModes(s, body, m1) ==
  IF RSVPRequestSchema(body) /\ StorePatchGuest(s, m1, body.guestId, EmptyObj).ok
     /\ m1 # "empty"
  THEN Modes ELSE {"ok"}

Rsvp ==
  /\ last.op = "none"
  /\ \E body \in RsvpBodies, m1 \in Modes :
     \E m2 \in FamilyModes(store, body, m1) :
       LET done == IF ~RSVPRequestSchema(body)
                   THEN Written(Outcome(ValidationFailure, <<>>), store)
                   ELSE RsvpHandler(store, body, m1, m2)
       IN /\ last' = Handled("rsvp", "current", body, done)
          /\ store' = done.store

LegacyRsvp ==
  /\ last.op = "none"
  /\ \E body \in LegacyRsvpBodies, m1 \in Modes :
       LET done == IF ~RSVPRequestSchema(body)
                   THEN Written(Outcome(ValidationFailure, <<>>), store)
                   ELSE LegacyRsvpHandler(store, body, m1)
       IN /\ last' = Handled("rsvp", "legacy", body, done)
          /\ store' = done.store

NextRsvp == Rsvp \/ LegacyRsvp

SpecRsvp == InitRsvp /\ [][NextRsvp]_vars

\* ------------------------------------------------------------------------
\* Sequences of requests: the worker serves one request after another, each
\* on the store the earlier ones left.

\* The bodies of POST /rsvp sent in a sequence: an answer of the first
\* guest, a dietary note with a family note, an answer with a family e-mail
\* of the second guest, an answer for a record that does not exist, and
\* bodies with an empty and with no guestId.
SeqBodies ==
  { ("guestId" :> 1) @@ ("lakodalom" :> FALSE),
    ("guestId" :> 1) @@ ("dietaryRestrictions" :> "nut allergy") @@ ("transfer" :> TRUE)
      @@ ("familyId" :> Fam) @@ ("familyNotes" :> "new note"),
    ("guestId" :> 2) @@ ("szertartas" :> TRUE)
      @@ ("familyId" :> Fam) @@ ("familyEmail" :> "new@x.hu"),
    ("guestId" :> DeletedGuest) @@ ("szertartas" :> TRUE),
    ("guestId" :> NoId) @@ ("lakodalom" :> FALSE),
    ("lakodalom" :> FALSE) @@ ("familyId" :> Fam) @@ ("familyEmail" :> "new@x.hu") }

\* The bodies of POST /verify-name sent in a sequence: a stored name, a
\* fragment of one, the empty name and no name.
SeqVerifyBodies == {[name |-> <<"a", "n">>], [name |-> <<"n">>], [name |-> <<>>], EmptyObj}

InitSeq == store \in RsvpStores /\ last = Idle

RsvpRequest ==
  \E body \in SeqBodies, m1 \in Modes :
  \E m2 \in FamilyModes(store, body, m1) :
    LET done == IF ~RSVPRequestSchema(body)
                THEN Written(Outcome(ValidationFailure, <<>>), store)
                ELSE RsvpHandler(store, body, m1, m2)
    IN /\ last' = Handled("rsvp", "current", body, done)
       /\ store' = done.store

VerifyNameRequest ==
  /\ \E body \in SeqVerifyBodies, m1, m2, m3 \in Modes :
       last' = Handled("verify-name", "current", body,
                 IF ~VerifyNameRequestSchema(body) THEN Outcome(ValidationFailure, <<>>)
                 ELSE VerifyNameHandler(store, body.name, m1, m2, m3))
  /\ UNCHANGED store

GuestsRequest ==
  /\ \E m1 \in Modes :
       last' = Handled("guests", "current", EmptyObj, GuestsHandler(store, m1))
  /\ UNCHANGED store

GuestsFamilyRequest ==
  /\ \E familyId \in FamilyParams, m1 \in Modes :
       last' = Handled("guests-family", "current", [familyId |-> familyId],
                 GuestsFamilyHandler(store, familyId, m1))
  /\ UNCHANGED store

NextSeq == RsvpRequest \/ VerifyNameRequest \/ GuestsRequest \/ GuestsFamilyRequest

SpecSeq == InitSeq /\ [][NextSeq]_vars

\* ------------------------------------------------------------------------
\* Reshaping of one record, whatever its cells hold: the store hands a record
\* over (`store.returned`) and the worker reshapes it.

\* What a cell can hold.
FlagCells == {"absent", "null", "true", "false"}
TextCells == {"absent", "null", "empty", "text"}
NameCells == {"absent", "null", "text"}

FlagCell(k, c) == Opt(k, c # "absent", c = "true")
TextCell(k, c) == Opt(k, c # "absent", IF c = "text" THEN "vegan" ELSE "")
NameCell(k, c) == Opt(k, c # "absent", IF c = "text" THEN <<"A", "n">> ELSE <<>>)

\* The records handed over: every combination of the flag cells, the Name
\* cell and the dietary note.
ReshapeInputs ==
  { [id |-> 1,
     fields |-> FlagCell("Attending", at) @@ FlagCell("Szertartas", sz)
                @@ FlagCell("Lakodalom", la) @@ FlagCell("Transfer", tr)
                @@ NameCell("Name", na) @@ TextCell("Dietary Restrictions", di),
     nulls |-> {k \in {"Attending"} : at = "null"} \cup {k \in {"Szertartas"} : sz = "null"}
               \cup {k \in {"Lakodalom"} : la = "null"} \cup {k \in {"Transfer"} : tr = "null"}
               \cup {k \in {"Name"} : na = "null"}
               \cup {k \in {"Dietary Restrictions"} : di = "null"}] :
      at \in FlagCells, sz \in FlagCells, la \in FlagCells, tr \in FlagCells,
      na \in NameCells, di \in TextCells }

InitReshape == store \in {[returned |-> rec] : rec \in ReshapeInputs} /\ last = Idle

Reshape ==
  /\ last.op = "none"
  /\ last' = Handled("reshape", "current", EmptyObj,
               Outcome(Json(0, mapAirtableRecord(store.returned)), <<>>))
  /\ UNCHANGED store

LegacyReshape ==
  /\ last.op = "none"
  /\ last' = Handled("reshape", "legacy", EmptyObj,
               Outcome(Json(0, LegacyMapAirtableRecord(store.returned)), <<>>))
  /\ UNCHANGED store

NextReshape == Reshape \/ LegacyReshape

SpecReshape == InitReshape /\ [][NextReshape]_vars

\* ------------------------------------------------------------------------
\* The worker's environment: every call to the store carries the access key
\* of the deployment.

\* The secrets two deployments are configured with.
Keys == {"keyA", "keyB"}

Env(key) == [AIRTABLE_API_KEY |-> key, AIRTABLE_BASE_ID |-> "appBase"]

\* The headers airtableRequest puts on every call.
Headers(env) ==
  [Authorization |-> <<"Bearer", env.AIRTABLE_API_KEY>>, ContentType |-> "application/json"]

\* The calls go out with the key, and a failure reports the key with it.
AuthorizedEchoed(env, done) ==
  [done EXCEPT
     !.calls = [i \in DOMAIN done.calls |->
                  [done.calls[i] EXCEPT !.request = @ @@ [headers |-> Headers(env)]]],
     !.response = IF @.status = 500
                  THEN Json(500, [error |-> <<@.body.error, env.AIRTABLE_API_KEY>>])
                  ELSE @]

\* The handler's calls as airtableRequest sends them: the key goes into the
\* Authorization header of each call and nowhere else.
Authorized(env, done) ==
  [done EXCEPT
     !.calls = [i \in DOMAIN done.calls |->
                  [done.calls[i] EXCEPT !.request = @ @@ [headers |-> Headers(env)]]]]

\* The routes of the worker.
Routes == {"verify-name", "rsvp", "guests", "guests-family"}

\* The requests a route is sent.
RequestsOf(op) ==
  CASE op = "verify-name" -> SeqVerifyBodies
    [] op = "rsvp" -> SeqBodies
    [] op = "guests" -> {EmptyObj}
    [] OTHER -> {[familyId |-> f] : f \in FamilyParams}

\* How the calls of a request end, in the order they are issued.
ModesOf(op) ==
  CASE op = "verify-name" -> {<<m1, m2, m3>> : m1 \in Modes, m2 \in Modes, m3 \in Modes}
    [] op = "rsvp" -> {<<m1, m2, "ok">> : m1 \in Modes, m2 \in Modes}
    [] OTHER -> {<<m1, "ok", "ok">> : m1 \in Modes}

\* The app: the route's validator and handler, on store s.
Route(op, req, s, m) ==
  CASE op = "verify-name" ->
         Written(IF ~VerifyNameRequestSchema(req) THEN Outcome(ValidationFailure, <<>>)
                 ELSE VerifyNameHandler(s, req.name, m[1], m[2], m[3]), s)
    [] op = "rsvp" ->
         IF ~RSVPRequestSchema(req) THEN Written(Outcome(ValidationFailure, <<>>), s)
         ELSE RsvpHandler(s, req, m[1],
                IF m[2] \in FamilyModes(s, req, m[1]) THEN m[2] ELSE "ok")
    [] op = "guests" -> Written(GuestsHandler(s, m[1]), s)
    [] OTHER -> Written(GuestsFamilyHandler(s, req.familyId, m[1]), s)

\* One request served by the worker deployed with `env`.
Fetch(env, op, req, s, m) == Authorized(env, Route(op, req, s, m))

\* A deployment before its first request.
InitKey ==
  /\ store \in RsvpStores
  /\ \E key \in Keys : last = Idle @@ [env |-> Env(key)]

\* The worker serves one request; `pre` and `modes` keep the store it was
\* served on and how the store answered.
KeyedRequest ==
  /\ last.op = "none"
  /\ \E op \in Routes :
     \E req \in RequestsOf(op), m \in ModesOf(op) :
       LET done == Fetch(last.env, op, req, store, m)
       IN /\ last' = Handled(op, "current", req, done)
                       @@ [env |-> last.env, pre |-> store, modes |-> m]
          /\ store' = done.store

NextKey == KeyedRequest

SpecKey == InitKey /\ [][NextKey]_vars

\* ------------------------------------------------------------------------
\* The client form (RSVPForm.tsx) in front of the worker.  `last` holds the
\* state of the component, the submit-RSVP requests it has in flight and the
\* verify-name response on its way; `store` is the backing store.

\* Submissions dispatched per session, and inputs (a click on a member's
\* box, a text typed) made per verification, at most.
MaxBatches == 1
MaxEdits == 1

\* The family of the form: the first two guests.
FormMembers == <<1, 2>>

\* The RSVP cells of the two members and the family's Email and Notes.
FormProfiles ==
  {<<DefaultRsvp(1), EmptyObj, "e@x.hu", "">>,
   <<("Szertartas" :> TRUE) @@ ("Lakodalom" :> TRUE) @@ ("Transfer" :> TRUE),
     ("Szertartas" :> TRUE) @@ ("Dietary Restrictions" :> "vegan"), "", "old note">>}

FormStores ==
  { [guests |-> [g \in GuestIds |->
                   GuestFields(g, <<Fam>>,
                     IF g = 1 THEN p[1] ELSE IF g = 2 THEN p[2] ELSE DefaultRsvp(g))],
     families |-> (Fam :> FamilyFields(FormMembers, p[3], p[4]))] :
      p \in FormProfiles }

\* What the user types: a name on the list and one that is not; e-mail
\* addresses (malformed, well-formed with blanks around); a dietary
\* note; a family note.
FormNames == {<<"a", "n">>, <<"o", "b">>}
FormEmails == {"bad", " a@b.hu "}
DietaryTexts == {"nut allergy"}
FormNotes == {"see you"}

\* The characters of the strings the form handles.
Chars(str) ==
  CASE str = "" -> <<>>
    [] str = "bad" -> <<"b", "a", "d">>
    [] str = " a@b.hu " -> <<" ", "a", "@", "b", ".", "h", "u", " ">>
    [] str = "a@b.hu" -> <<"a", "@", "b", ".", "h", "u">>
    [] str = "e@x.hu" -> <<"e", "@", "x", ".", "h", "u">>
    [] str = "old note" -> <<"o", "l", "d", " ", "n", "o", "t", "e">>
    [] str = "see you" -> <<"s", "e", "e", " ", "y", "o", "u">>
    [] str = "vegan" -> <<"v", "e", "g", "a", "n">>
    [] OTHER -> <<"n", "u", "t", " ", "a", "l", "l", "e", "r", "g", "y">>

Strings == {"", "bad", " a@b.hu ", "a@b.hu", "e@x.hu", "old note", "see you", "vegan",
            "nut allergy"}

\* String.prototype.trim
TrimString(str) == CHOOSE t \in Strings : Chars(t) = Trim(Chars(str))

\* /^[^\s@]+@[^\s@]+\.[^\s@]+$/.test(str)
EmailRegexTest(str) ==
  LET cs == Chars(str)
  IN \E a, d \in 1..Len(cs) :
       /\ 1 < a /\ a + 1 < d /\ d < Len(cs)
       /\ cs[a] = "@" /\ cs[d] = "."
       /\ \A k \in 1..Len(cs) : cs[k] # " " /\ (cs[k] = "@" => k = a)

\* { ...obj, ...updates }
Spread(obj, updates) ==
  [k \in (DOMAIN obj) \cup (DOMAIN updates) |->
     IF k \in DOMAIN updates THEN updates[k] ELSE obj[k]]

\* Nothing in flight.
NoBatch == <<>>
NotVerifying == <<>>

\* useState(...) of every piece of state: the component as mounted.
InitialForm ==
  [step |-> "verify", familyMembers |-> <<>>, rsvpData |-> EmptyObj,
   hasDietaryRestrictions |-> EmptyObj, familyEmail |-> "", familyNotes |-> "",
   familyId |-> "", emailError |-> "", verifyErrorMessage |-> "",
   submitErrorMessage |-> "", isSubmitting |-> FALSE,
   verifying |-> NotVerifying, results |-> NoBatch, batches |-> 0, edits |-> 0]

InitForm == store \in FormStores /\ last = InitialForm

\* The message shown for a rejected request: the `error` of the response's
\* JSON body, else the status line.  A reason that is no Response (status 0)
\* has neither json() nor status.
ErrorMessage(reason) ==
  IF Has(reason.body, "error") /\ reason.body.error # "" THEN reason.body.error
  ELSE IF reason.status = 0 THEN "HTTP error! status: undefined"
  ELSE "HTTP error! status"

\* The request failed before any response: fetch rejects with a TypeError.
NetworkError == Json(0, EmptyObj)

\* handleVerifyName: clears the message and sends the name; the worker
\* serves the request and its response is on its way.
HandleVerifyName ==
  /\ last.step = "verify"
  /\ last.verifying = NotVerifying
  /\ last.batches < MaxBatches \/ last.results # NoBatch
  /\ \E name \in FormNames, m1 \in Modes, m2 \in {"ok", "status"}, m3 \in {"ok", "empty"} :
       LET body == [name |-> name]
           outcome == IF ~VerifyNameRequestSchema(body)
                      THEN Outcome(ValidationFailure, <<>>)
                      ELSE VerifyNameHandler(store, name, m1, m2, m3)
       IN last' = [last EXCEPT !.verifyErrorMessage = "",
                               !.verifying = <<outcome.response>>]
  /\ UNCHANGED store

\* The initial data with the reception checked for a member without answer.
InitialRsvpDataAttending(familyMembers) ==
  LET member(id) == CHOOSE m \in {familyMembers[i] : i \in 1..Len(familyMembers)} : m.id = id
  IN [id \in {familyMembers[i].id : i \in 1..Len(familyMembers)} |->
        [guestId |-> id,
         dietaryRestrictions |->
           IF Has(member(id), "dietaryRestrictions") THEN member(id).dietaryRestrictions ELSE "",
         szertartas |-> IF Has(member(id), "szertartas") THEN member(id).szertartas ELSE FALSE,
         lakodalom |-> TRUE,
         transfer |-> IF Has(member(id), "transfer") THEN member(id).transfer ELSE FALSE]]

\* initialRsvpData of onSuccess: what the form shows for the members.
InitialRsvpData(familyMembers) ==
  LET member(id) == CHOOSE m \in {familyMembers[i] : i \in 1..Len(familyMembers)} : m.id = id
  IN [id \in {familyMembers[i].id : i \in 1..Len(familyMembers)} |->
        [guestId |-> id,
         dietaryRestrictions |->
           IF Has(member(id), "dietaryRestrictions") THEN member(id).dietaryRestrictions ELSE "",
         szertartas |-> IF Has(member(id), "szertartas") THEN member(id).szertartas ELSE FALSE,
         lakodalom |-> IF Has(member(id), "lakodalom") THEN member(id).lakodalom ELSE FALSE,
         transfer |-> IF Has(member(id), "transfer") THEN member(id).transfer ELSE FALSE]]

\* initialHasDietaryRestrictions of onSuccess
InitialHasDietaryRestrictions(familyMembers) ==
  LET member(id) == CHOOSE m \in {familyMembers[i] : i \in 1..Len(familyMembers)} : m.id = id
  IN [id \in {familyMembers[i].id : i \in 1..Len(familyMembers)} |->
        Has(member(id), "dietaryRestrictions")
        /\ Trim(Chars(member(id).dietaryRestrictions)) # <<>>]

\* The form after onSuccess(result).
OnVerifySuccess(form, result) ==
  [form EXCEPT
     !.familyMembers = result.familyMembers,
     !.rsvpData = InitialRsvpData(result.familyMembers),
     !.hasDietaryRestrictions = InitialHasDietaryRestrictions(result.familyMembers),
     !.familyEmail = IF Has(result, "familyEmail") THEN result.familyEmail ELSE "",
     !.familyNotes = IF Has(result, "familyNotes") THEN result.familyNotes ELSE "",
     !.familyId = IF Has(result, "familyId") THEN result.familyId ELSE "",
     !.step = "rsvp",
     !.edits = 0]

\* The verify-name response arrives: the mutation throws a response that is
\* not ok (onError) and hands the JSON of one that is to onSuccess.
VerifySettles ==
  /\ last.verifying # NotVerifying
  /\ LET res == last.verifying[1]
         form == [last EXCEPT !.verifying = NotVerifying]
     IN last' = IF res.status # 200
                  THEN [form EXCEPT !.verifyErrorMessage = ErrorMessage(res)]
                ELSE IF ~res.body.found THEN form
                ELSE OnVerifySuccess(form, res.body)
  /\ UNCHANGED store

\* updateRsvpData(guestId, updates)
updateRsvpData(rsvpData, guestId, updates) ==
  [rsvpData EXCEPT ![guestId] = Spread(@, updates)]

\* The user fills the form in while nothing is being sent: with a
\* submission under way they wait for it or go back.
Filling == last.step = "rsvp" /\ ~last.isSubmitting

\* The members whose controls the rsvp step shows, while edits are allowed.
Editable ==
  IF Filling /\ last.edits < MaxEdits THEN DOMAIN last.rsvpData ELSE {}

\* The ceremony checkbox of a member.
SetSzertartas ==
  /\ \E id \in Editable :
       last' = [last EXCEPT
         !.rsvpData = updateRsvpData(@, id, [szertartas |-> ~last.rsvpData[id].szertartas]),
         !.edits = @ + 1]
  /\ UNCHANGED store

\* The reception checkbox that forgets to clear what depends on it.
OnLakodalomChangeKeeping(form, id, checked) ==
  [form EXCEPT !.rsvpData = updateRsvpData(@, id, [lakodalom |-> checked])]

\* onChange of the reception checkbox: unchecking it clears the member's
\* dietary note, transfer and has-dietary flag.
OnLakodalomChange(form, id, checked) ==
  IF checked
  THEN [form EXCEPT !.rsvpData = updateRsvpData(@, id, [lakodalom |-> checked])]
  ELSE [form EXCEPT
          !.rsvpData = updateRsvpData(updateRsvpData(@, id, [lakodalom |-> checked]),
                                      id, [dietaryRestrictions |-> "", transfer |-> FALSE]),
          !.hasDietaryRestrictions = Spread(@, id :> FALSE)]

SetLakodalom ==
  /\ \E id \in Editable :
       last' = [OnLakodalomChange(last, id, ~last.rsvpData[id].lakodalom)
                  EXCEPT !.edits = @ + 1]
  /\ UNCHANGED store

\* The has-dietary checkbox, shown when the reception is checked: unchecking
\* it clears the note.
SetHasDietary ==
  /\ \E id \in Editable :
       /\ last.rsvpData[id].lakodalom
       /\ LET checked == ~last.hasDietaryRestrictions[id]
          IN last' = [last EXCEPT
               !.hasDietaryRestrictions = Spread(@, id :> checked),
               !.rsvpData = IF checked THEN @
                            ELSE updateRsvpData(@, id, [dietaryRestrictions |-> ""]),
               !.edits = @ + 1]
  /\ UNCHANGED store

\* The dietary note, shown when the has-dietary box is checked.
TypeDietary ==
  /\ \E id \in Editable, text \in DietaryTexts :
       /\ last.rsvpData[id].lakodalom
       /\ last.hasDietaryRestrictions[id]
       /\ last.rsvpData[id].dietaryRestrictions # text
       /\ last' = [last EXCEPT
            !.rsvpData = updateRsvpData(@, id, [dietaryRestrictions |-> text]),
            !.edits = @ + 1]
  /\ UNCHANGED store

\* The transfer checkbox, shown when the reception is checked.
SetTransfer ==
  /\ \E id \in Editable :
       /\ last.rsvpData[id].lakodalom
       /\ last' = [last EXCEPT
            !.rsvpData = updateRsvpData(@, id, [transfer |-> ~last.rsvpData[id].transfer]),
            !.edits = @ + 1]
  /\ UNCHANGED store

\* The family's e-mail input.
TypeEmail ==
  /\ Filling
  /\ last.edits < MaxEdits
  /\ \E value \in FormEmails :
       /\ value # last.familyEmail
       /\ last' = [last EXCEPT !.familyEmail = value, !.emailError = "", !.edits = @ + 1]
  /\ UNCHANGED store

\* The family's notes input.
TypeNotes ==
  /\ Filling
  /\ last.edits < MaxEdits
  /\ \E value \in FormNotes :
       /\ value # last.familyNotes
       /\ last' = [last EXCEPT !.familyNotes = value, !.edits = @ + 1]
  /\ UNCHANGED store

\* The data cleared with the step left as it is.
ClearedKeepingStep(form) ==
  [form EXCEPT
     !.familyMembers = <<>>, !.rsvpData = EmptyObj,
     !.hasDietaryRestrictions = EmptyObj, !.familyEmail = "", !.familyNotes = "",
     !.familyId = "", !.emailError = "", !.submitErrorMessage = "",
     !.verifying = NotVerifying, !.edits = 0]

\* What the back button and the new-response button clear;
\* verifyNameMutation.reset() drops a verification still under way.
Cleared(form) ==
  [form EXCEPT
     !.step = "verify", !.familyMembers = <<>>, !.rsvpData = EmptyObj,
     !.hasDietaryRestrictions = EmptyObj, !.familyEmail = "", !.familyNotes = "",
     !.familyId = "", !.emailError = "", !.submitErrorMessage = "",
     !.verifying = NotVerifying, !.edits = 0]

\* "Vissza" of the rsvp step; it is enabled while a submission is under way.
Back ==
  /\ last.step = "rsvp"
  /\ last' = Cleared(last)
  /\ UNCHANGED store

\* "Uj visszajelzes" of the success step.
NewResponse ==
  /\ last.step = "success"
  /\ last' = Cleared(last)
  /\ UNCHANGED store

\* rsvpRequests: one request per member of rsvpData, in the order of its
\* keys; undefined entries are left out of the JSON.
RsvpRequests(form) ==
  [i \in 1..Len(form.familyMembers) |->
     LET data == form.rsvpData[form.familyMembers[i].id]
     IN [guestId |-> data.guestId,
         szertartas |-> data.szertartas,
         lakodalom |-> data.lakodalom,
         dietaryRestrictions |-> data.dietaryRestrictions,
         transfer |-> data.transfer,
         familyEmail |-> TrimString(form.familyEmail)]
        @@ Opt("familyId", form.familyId # "", form.familyId)
        @@ Opt("familyNotes", TrimString(form.familyNotes) # "", TrimString(form.familyNotes))]

\* A request on its way.
Pending(request) == [request |-> request, status |-> "pending", value |-> EmptyObj]

\* handleSubmitRSVP up to its await: the checks of the e-mail and of the
\* data, then every request dispatched at once.
HandleSubmitRSVP ==
  /\ last.step = "rsvp"
  /\ ~last.isSubmitting
  /\ last.batches < MaxBatches
  /\ LET form == [last EXCEPT !.submitErrorMessage = "", !.emailError = ""]
     IN last' =
          IF TrimString(form.familyEmail) = ""
            THEN [form EXCEPT !.emailError = "Az email cim megadasa kotelezo"]
          ELSE IF ~EmailRegexTest(TrimString(form.familyEmail))
            THEN [form EXCEPT !.emailError = "Ervenyes email cim szukseges"]
          ELSE IF DOMAIN form.rsvpData = {}
            THEN [form EXCEPT !.submitErrorMessage = "Nincs kuldendo adat"]
          ELSE [form EXCEPT !.isSubmitting = TRUE,
                            !.batches = @ + 1,
                            !.results = [i \in 1..Len(RsvpRequests(form)) |->
                                           Pending(RsvpRequests(form)[i])]]
  /\ UNCHANGED store

\* How a dispatched request can end: the worker serves it; the request fails
\* on the way; the promise is fulfilled with a body whose success is false,
\* or with null.
Deliveries == {"served", "lost", "unsuccessful", "null"}

\* submitRSVP(request) settles: rejected with the response when it is not
\* ok, fulfilled with its JSON otherwise.
Settled(item, delivery, response) ==
  CASE delivery = "lost" -> [item EXCEPT !.status = "rejected", !.value = NetworkError]
    [] delivery = "unsuccessful" ->
         [item EXCEPT !.status = "fulfilled", !.value = [success |-> FALSE]]
    [] delivery = "null" -> [item EXCEPT !.status = "fulfilled", !.value = [null |-> TRUE]]
    [] OTHER -> IF response.status = 200
                THEN [item EXCEPT !.status = "fulfilled", !.value = response.body]
                ELSE [item EXCEPT !.status = "rejected", !.value = response]

\* One of the requests in flight settles, in any order; the worker serves
\* it on the store as it is by then.
Settle ==
  \E i \in 1..Len(last.results), delivery \in Deliveries, m1 \in Modes :
    /\ last.results[i].status = "pending"
    /\ LET request == last.results[i].request
       IN \E m2 \in FamilyModes(store, request, m1) :
            LET done == IF delivery # "served" THEN Written(Outcome(NetworkError, <<>>), store)
                        ELSE IF ~RSVPRequestSchema(request)
                          THEN Written(Outcome(ValidationFailure, <<>>), store)
                        ELSE RsvpHandler(store, request, m1, m2)
            IN /\ last' = [last EXCEPT
                   !.results[i] = Settled(@, delivery, done.response)]
               /\ store' = done.store

\* `failed`: the rejected results, in request order.
Failed(results) == SelectSeq(results, LAMBDA r : r.status = "rejected")

\* `successful`: the fulfilled values.
Successful(results) == SelectSeq(results, LAMBDA r : r.status = "fulfilled")

\* The message of the rejected request that settled into the last slot.
LastErrorMessage(results) == ErrorMessage(Failed(results)[Len(Failed(results))].value)

\* failed[0].error, read as the form shows it.
FirstErrorMessage(results) == ErrorMessage(Failed(results)[1].value)

\* Success as soon as one request was fulfilled.
AllSuccessAny(results) ==
  \E i \in 1..Len(results) : results[i].status = "fulfilled"

\* successful.every(r => r.success): no value of a fulfilled request lacks a
\* true `success`.
AllSuccess(results) ==
  \A i \in 1..Len(Successful(results)) :
    LET r == Successful(results)[i].value
    IN Has(r, "success") /\ r.success

\* successful.every throws on a value that is null.
Throws(results) ==
  \E i \in 1..Len(Successful(results)) : Has(Successful(results)[i].value, "null")

\* The handler that leaves isSubmitting set after a failed request.
AfterAllSettledNoFinally(form) ==
  LET results == form.results
      done == [form EXCEPT !.results = NoBatch]
  IN IF Len(Failed(results)) > 0
       THEN [done EXCEPT !.submitErrorMessage = FirstErrorMessage(results)]
     ELSE IF Throws(results)
       THEN [done EXCEPT !.submitErrorMessage = "Hiba tortent a kuldes soran",
                         !.isSubmitting = FALSE]
     ELSE IF ~AllSuccess(results)
       THEN [done EXCEPT !.submitErrorMessage = "Nehany RSVP kuldese sikertelen volt",
                         !.isSubmitting = FALSE]
     ELSE [done EXCEPT !.step = "success", !.submitErrorMessage = "",
                       !.isSubmitting = FALSE]

\* handleSubmitRSVP after Promise.allSettled: the first failure's message,
\* or the success step; `finally` resets isSubmitting on every path.
AfterAllSettled(form) ==
  LET results == form.results
      done == [form EXCEPT !.results = NoBatch, !.isSubmitting = FALSE]
  IN IF Len(Failed(results)) > 0
       THEN [done EXCEPT !.submitErrorMessage = FirstErrorMessage(results)]
     ELSE IF Throws(results)
       THEN [done EXCEPT !.submitErrorMessage = "Hiba tortent a kuldes soran"]
     ELSE IF ~AllSuccess(results)
       THEN [done EXCEPT !.submitErrorMessage = "Nehany RSVP kuldese sikertelen volt"]
     ELSE [done EXCEPT !.step = "success", !.submitErrorMessage = ""]

\* Promise.allSettled resolves once every request has settled, and the
\* handler runs on.
Resume ==
  /\ last.results # NoBatch
  /\ \A i \in 1..Len(last.results) : last.results[i].status # "pending"
  /\ last' = AfterAllSettled(last)
  /\ UNCHANGED store

NextForm ==
  \/ HandleVerifyName
  \/ VerifySettles
  \/ SetSzertartas
  \/ SetLakodalom
  \/ SetHasDietary
  \/ TypeDietary
  \/ SetTransfer
  \/ TypeEmail
  \/ TypeNotes
  \/ Back
  \/ NewResponse
  \/ HandleSubmitRSVP
  \/ Settle
  \/ Resume

SpecForm == InitForm /\ [][NextForm]_vars

\* Every request in flight settles, and the handler runs on once all have.
SpecFormFair == SpecForm /\ WF_vars(Settle) /\ WF_vars(Resume)

\* Every route, on every store above.
Init == InitRead \/ InitRsvp

Next == NextRead \/ NextRsvp

Spec == Init /\ [][Next]_vars

\* ------------------------------------------------------------------------
\* Properties of the read routes

Status == last.response.status
Body == last.response.body

IsVerify == last.op = "verify-name"

\* The search call was answered with a success status and an empty record list.
SearchMatchedNone ==
  /\ Len(last.calls) >= 1
  /\ last.calls[1].response.ok
  /\ Has(last.calls[1].response.json, "records")
  /\ Len(last.calls[1].response.json.records) = 0

OnlyReads == \A i \in 1..Len(last.calls) : last.calls[i].request.method = "GET"

\* C1: a non-empty name for which the guest search returns zero records gets
\* 404 with found = false; the search is the only call issued to the store
\* and it is a read.  Holds for both generations of the handler.
C1_NotFound ==
  (IsVerify /\ VerifyNameRequestSchema(last.req) /\ SearchMatchedNone)
    => /\ Status = 404
       /\ Has(Body, "found") /\ Body.found = FALSE
       /\ Len(last.calls) = 1
       /\ OnlyReads

C1_Witness ==
  /\ IsVerify /\ last.impl = "current"
  /\ SearchMatchedNone
  /\ Status = 404

\* The Members cell of the family record the handler fetched.
FetchedMembers == last.calls[2].response.json.fields["Members"]

\* C2 (as claimed): a successful verify-name returns as many familyMembers as
\* the family record lists member identifiers; a member fetch that returns
\* fewer records makes the call fail.
C2_Claimed ==
  (IsVerify /\ last.impl = "current" /\ Status = 200)
    => Len(Body.familyMembers) = Len(FetchedMembers)

\* C5: list-guests-by-family with an empty or missing familyId answers 400
\* and issues no call to the store.
C5_MissingFamilyId ==
  (last.op = "guests-family" /\ last.req.familyId = "")
    => (Status = 400 /\ last.calls = <<>>)

C5_Witness ==
  /\ last.op = "guests-family" /\ last.impl = "current"
  /\ last.req.familyId = ""
  /\ Status = 400

\* A call the store answered with a non-success status, or with a body that
\* lacks the records (or the record fields) asked for.
BadAnswer(x) ==
  /\ ~x.response.rejected
  /\ \/ ~x.response.ok
     \/ ~Has(x.response.json, "records") /\ ~Has(x.response.json, "fields")

\* C8 (as claimed): whenever a call to the store is answered with a
\* non-success status or a body without the expected records, the client
\* gets a 500, never a success.
C8_Claimed ==
  (last.impl = "current" /\ \E i \in 1..Len(last.calls) : BadAnswer(last.calls[i]))
    => Status = 500

\* C9 (as claimed): verify-name answers 404 only when the search call
\* succeeded and matched no guest; a failed search is a 500.
C9_Claimed ==
  (IsVerify /\ Status = 404)
    => (last.calls[1].response.ok /\ Has(last.calls[1].response.json, "records"))

\* The search matched a guest that carries no family grouping.
MatchedUngrouped ==
  /\ Len(last.calls) >= 1
  /\ HasRecords(last.calls[1].response)
  /\ ~Has(last.calls[1].response.json.records[1].fields, "Family name")
  /\ ~Has(last.calls[1].response.json.records[1].fields, "Family ID")

NoGuestData == ~Has(Body, "guest") /\ ~Has(Body, "familyMembers")

FamilyNotResolved ==
  /\ IsVerify /\ last.impl = "current"
  /\ Len(last.calls) >= 2
  /\ LET r == last.calls[2].response
     IN \/ r.rejected
        \/ ~r.ok
        \/ ~Has(r.json, "fields")
        \/ ~Has(r.json.fields, "Members")
        \/ Len(r.json.fields["Members"]) = 0

\* C11: when the matched guest's family reference is dangling (the family
\* record fetch does not succeed) or the family record has no member list,
\* verify-name answers 500 with neither guest nor members, and stops there.
C11_FamilyUnresolved ==
  FamilyNotResolved => (Status = 500 /\ NoGuestData /\ Len(last.calls) = 2)

\* A guest linked to a family record that is gone.
C11_Witness ==
  /\ FamilyNotResolved
  /\ last.calls[2].request.endpoint.record = DanglingFam
  /\ ~last.calls[2].response.rejected /\ ~last.calls[2].response.ok
  /\ Status = 500

\* C12 (as claimed): whenever verify-name answers success, the matched guest
\* is one of the familyMembers it returns.
C12_Claimed ==
  (IsVerify /\ last.impl = "current" /\ Status = 200)
    => \E i \in 1..Len(Body.familyMembers) : Body.familyMembers[i].id = Body.guest.id

ReadOps == {"verify-name", "guests", "guests-family"}

\* Every call in the sequence is a GET without a body.
AllGets(calls) ==
  \A i \in 1..Len(calls) :
    calls[i].request.method = "GET" /\ ~Has(calls[i].request, "body")

\* C13: verify-name, list-all-guests and list-guests-by-family are read-only:
\* whatever the outcome, every call they issue is a GET and every guest and
\* family record is as it was.
C13_ReadOnly ==
  [][last'.op \in ReadOps => (AllGets(last'.calls) /\ store' = store)]_vars

\* A verify-name that went through its three calls on a complete family.
C13_Witness ==
  /\ IsVerify /\ last.impl = "current" /\ Status = 200 /\ Len(last.calls) = 3
  /\ AllGets(last.calls) /\ last.req.name = <<"B", "O">>
  /\ Has(store.families[Fam], "Members") /\ store.families[Fam]["Members"] = AllMembers

\* The search of a verify-name was answered from the store's data.
SearchAnswered ==
  /\ IsVerify /\ Len(last.calls) >= 1
  /\ last.calls[1].response.ok /\ Has(last.calls[1].response.json, "records")

\* The identifiers of the records the search returned.
SearchMatches ==
  LET records == last.calls[1].response.json.records
  IN {records[i].id : i \in 1..Len(records)}

\* The same string up to letter case.
SameUpToCase(a, b) ==
  Len(a) = Len(b) /\ \A i \in 1..Len(a) : LowerChar(a[i]) = LowerChar(b[i])

\* b occurs in a, up to letter case.
OccursUpToCase(a, b) ==
  \E i \in 0..(Len(a) - Len(b)) :
    \A j \in 1..Len(b) : LowerChar(a[i + j]) = LowerChar(b[j])

\* The supplied name without the blanks around it.
Stripped(name) ==
  LET inner == {i \in 1..Len(name) : name[i] # " "}
  IN IF inner = {} THEN <<>>
     ELSE LET lo == CHOOSE i \in inner : \A j \in inner : i <= j
              hi == CHOOSE i \in inner : \A j \in inner : i >= j
          IN [k \in 1..(hi - lo + 1) |-> name[lo + k - 1]]

\* C19 (as claimed): whichever handler serves the request, the search
\* matches a guest only when the supplied name is the stored name up to
\* letter case.
C19_Claimed ==
  SearchAnswered =>
    \A g \in SearchMatches : SameUpToCase(store.guests[g]["Full name"], last.req.name)

\* C19 (amended): the current handler matches exactly the guests whose Full
\* name is the supplied name, stripped of the blanks around it, up to letter
\* case; a proper substring matches nobody.  The handler of worker/index.ts
\* matches every guest whose Name contains the supplied name up to letter
\* case.
C19_Amended ==
  SearchAnswered =>
    /\ last.impl = "current" =>
         SearchMatches =
           {g \in GuestIds : SameUpToCase(store.guests[g]["Full name"], Stripped(last.req.name))}
    /\ last.impl = "legacy" =>
         SearchMatches =
           {g \in GuestIds : OccursUpToCase(store.guests[g]["Name"], last.req.name)}

\* "n", a fragment of every stored name, matches nobody in the current
\* handler.
C19_Witness ==
  /\ SearchAnswered /\ last.impl = "current"
  /\ last.req.name = <<"n">>
  /\ SearchMatches = {}
  /\ Status = 404

\* C20: one verify-name issues at most three calls, whatever the size of
\* the family: the guest search, the fetch of one family record, and one
\* member fetch whose filter names every identifier of the family's list.
C20_ThreeCalls ==
  (IsVerify /\ last.impl = "current") =>
    /\ Len(last.calls) <= 3
    /\ Len(last.calls) >= 1 =>
         /\ last.calls[1].request.endpoint.table = TABLE_NAME
         /\ last.calls[1].request.endpoint.filter.f = "LowerEq"
    /\ Len(last.calls) >= 2 =>
         /\ last.calls[2].request.endpoint.table = FAMILIES_TABLE_NAME
         /\ Has(last.calls[2].request.endpoint, "record")
    /\ Len(last.calls) = 3 =>
         /\ last.calls[3].request.endpoint.table = TABLE_NAME
         /\ last.calls[3].request.endpoint.filter.f = "OrRecordId"
         /\ last.calls[3].request.endpoint.filter.ids = FetchedMembers

\* The largest family: every guest and a record deleted since, fetched in
\* the third call.
C20_Witness ==
  /\ IsVerify /\ last.impl = "current" /\ Status = 200
  /\ Len(last.calls) = 3
  /\ Len(FetchedMembers) = MaxGuests + 1
  /\ Len(last.calls[3].request.endpoint.filter.ids) = MaxGuests + 1
  /\ Len(Body.familyMembers) = MaxGuests

\* ------------------------------------------------------------------------
\* Properties of the write route

IsRsvp(l) == l.op = "rsvp"

\* The guest fields of the client contract that submit-RSVP writes.
GuestKeys == {"szertartas", "lakodalom", "dietaryRestrictions", "transfer"}

\* The store column a request key is written to.
Column(k) ==
  CASE k = "szertartas" -> "Szertartas"
    [] k = "lakodalom" -> "Lakodalom"
    [] k = "dietaryRestrictions" -> "Dietary Restrictions"
    [] k = "transfer" -> "Transfer"
    [] k = "attending" -> "Attending"
    [] k = "email" -> "Email"
    [] k = "phone" -> "Phone"
    [] k = "notes" -> "Notes"
    [] OTHER -> "(none)"

\* The fields of the guest write payload sent upstream.
PayloadOf(l) == l.calls[1].request.body.records[1].fields

\* No guest's stored dietary note differs between the stores s and t.
SameDietaryNotes(s, t) ==
  \A g \in GuestIds :
    /\ Has(s.guests[g], "Dietary Restrictions") = Has(t.guests[g], "Dietary Restrictions")
    /\ Has(s.guests[g], "Dietary Restrictions") =>
         s.guests[g]["Dietary Restrictions"] = t.guests[g]["Dietary Restrictions"]

OmittedStayOut(l) ==
  \A k \in GuestKeys \ DOMAIN l.req : Column(k) \notin DOMAIN PayloadOf(l)

\* C3 (as claimed): whichever handler serves the request, a guest field the
\* body omits is absent from the write payload, the payload holds no field
\* the body did not carry, and a body without dietaryRestrictions leaves
\* every stored dietary note as it was.
C3_Claimed ==
  [][(IsRsvp(last') /\ Len(last'.calls) >= 1)
       => /\ OmittedStayOut(last')
          /\ \A c \in DOMAIN PayloadOf(last') : \E k \in DOMAIN last'.req : Column(k) = c
          /\ ~Has(last'.req, "dietaryRestrictions") => SameDietaryNotes(store, store')]_vars

\* C3 (amended): as claimed for the current handler, whose payload is
\* exactly the guest fields the body carried, with their values.  The
\* handler of worker/index.ts also keeps omitted fields out and leaves the
\* dietary note alone, but it never forwards szertartas, lakodalom or
\* transfer and it adds "Submitted At" to every payload.
C3_Amended ==
  [][(IsRsvp(last') /\ Len(last'.calls) >= 1)
       => /\ OmittedStayOut(last')
          /\ ~Has(last'.req, "dietaryRestrictions") => SameDietaryNotes(store, store')
          /\ last'.impl = "current" =>
               /\ DOMAIN PayloadOf(last') = {Column(k) : k \in GuestKeys \cap DOMAIN last'.req}
               /\ \A k \in GuestKeys \cap DOMAIN last'.req :
                    PayloadOf(last')[Column(k)] = last'.req[k]
          /\ last'.impl = "legacy" =>
               /\ "Submitted At" \in DOMAIN PayloadOf(last')
               /\ \A c \in DOMAIN PayloadOf(last') \ {"Submitted At"} :
                    \E k \in DOMAIN last'.req : Column(k) = c
               /\ DOMAIN PayloadOf(last') \cap {"Szertartas", "Lakodalom", "Transfer"} = {}]_vars

\* {guestId, lakodalom: false} served by the current handler for a guest
\* whose dietary note is "vegan".
C3_Witness ==
  /\ IsRsvp(last) /\ last.impl = "current" /\ Status = 200
  /\ DOMAIN last.req = {"guestId", "lakodalom"} /\ last.req.lakodalom = FALSE
  /\ Has(store.guests[last.req.guestId], "Dietary Restrictions")
  /\ store.guests[last.req.guestId]["Dietary Restrictions"] = "vegan"
  /\ DOMAIN PayloadOf(last) = {"Lakodalom"}

\* The guest update succeeded and a family update was issued and failed.
FamilyUpdateFailed ==
  /\ Len(last.calls) = 2
  /\ last.calls[1].response.ok /\ HasRecords(last.calls[1].response)
  /\ (last.calls[2].response.rejected \/ ~last.calls[2].response.ok)

\* C4 (as claimed): when the guest update succeeds and the family update
\* fails, by a non-success status or by a transport error, submit-RSVP still
\* answers success with the updated guest.
C4_Claimed ==
  (IsRsvp(last) /\ last.impl = "current" /\ FamilyUpdateFailed)
    => (Status = 200 /\ Has(Body, "guest"))

\* GET /guests as the store answers it.
ListedGuests(s) == GuestsHandler(s, "ok").response.body.guests

\* Key k of guest a is what it was in b.
SameKey(a, b, k) == Has(a, k) = Has(b, k) /\ (Has(a, k) => a[k] = b[k])

\* C6 (as claimed): after a successful submit-RSVP, list-all-guests shows
\* the guest with exactly the submitted values and every other field, and
\* every other guest, as listed before.
C6_Claimed ==
  [][(IsRsvp(last') /\ last'.impl = "current" /\ last'.response.status = 200)
       => LET before == ListedGuests(store)
              after == ListedGuests(store')
          IN \A i \in 1..Len(before) :
               IF before[i].id = last'.req.guestId
               THEN \A k \in DOMAIN before[i] \cup DOMAIN after[i] \cup GuestKeys :
                      IF k \in GuestKeys \cap DOMAIN last'.req
                      THEN Has(after[i], k) /\ after[i][k] = last'.req[k]
                      ELSE SameKey(after[i], before[i], k)
               ELSE after[i] = before[i]]_vars

\* C6 (amended): the same, except that a submitted empty dietaryRestrictions
\* is listed as an absent dietaryRestrictions, not as "".
C6_Amended ==
  [][(IsRsvp(last') /\ last'.impl = "current" /\ last'.response.status = 200)
       => LET before == ListedGuests(store)
              after == ListedGuests(store')
          IN \A i \in 1..Len(before) :
               IF before[i].id = last'.req.guestId
               THEN \A k \in DOMAIN before[i] \cup DOMAIN after[i] \cup GuestKeys :
                      IF k \in GuestKeys \cap DOMAIN last'.req
                      THEN IF k = "dietaryRestrictions" /\ last'.req[k] = ""
                           THEN ~Has(after[i], k)
                           ELSE Has(after[i], k) /\ after[i][k] = last'.req[k]
                      ELSE SameKey(after[i], before[i], k)
               ELSE after[i] = before[i]]_vars

\* A successful submission of a dietary note and a reception answer, now in
\* the store.
C6_Witness ==
  /\ IsRsvp(last) /\ last.impl = "current" /\ Status = 200
  /\ Has(last.req, "dietaryRestrictions") /\ last.req.dietaryRestrictions = "nut allergy"
  /\ Has(last.req, "lakodalom") /\ last.req.lakodalom = FALSE
  /\ ListedGuests(store)[last.req.guestId].dietaryRestrictions = "nut allergy"
  /\ ListedGuests(store)[last.req.guestId].lakodalom = FALSE

\* C7 (as claimed): a submit-RSVP that ends in a 500 modified no record; a
\* guest update whose family update failed is reported as success.
C7_Claimed ==
  [][(IsRsvp(last') /\ last'.response.status = 500) => store' = store]_vars

\* The guest update of the current handler went through.
GuestUpdated ==
  /\ IsRsvp(last) /\ last.impl = "current"
  /\ Len(last.calls) >= 1
  /\ last.calls[1].response.ok /\ HasRecords(last.calls[1].response)

\* A family-record update call was issued.
FamilyUpdateIssued ==
  /\ Len(last.calls) = 2
  /\ last.calls[2].request.method = "PATCH"
  /\ last.calls[2].request.endpoint.table = FAMILIES_TABLE_NAME

NonEmpty(obj, k) == Has(obj, k) /\ obj[k] # ""

\* C15 (as claimed): after the guest update, the family update is issued
\* exactly when a family identifier is supplied and familyEmail or
\* familyNotes is non-empty.
C15_Claimed ==
  GuestUpdated =>
    (FamilyUpdateIssued <=>
       /\ NonEmpty(last.req, "familyId")
       /\ NonEmpty(last.req, "familyEmail") \/ NonEmpty(last.req, "familyNotes"))

\* C15 (amended): after the guest update, the family update is issued
\* exactly when a non-empty family identifier is supplied and familyEmail is
\* non-empty or familyNotes is present, be it the empty string; it writes
\* the e-mail when non-empty and the note when present.
C15_Amended ==
  GuestUpdated =>
    /\ FamilyUpdateIssued <=>
         /\ NonEmpty(last.req, "familyId")
         /\ NonEmpty(last.req, "familyEmail") \/ Has(last.req, "familyNotes")
    /\ FamilyUpdateIssued =>
         LET rec == last.calls[2].request.body.records[1]
         IN /\ rec.id = last.req.familyId
            /\ DOMAIN rec.fields =
                 {c \in {"Email"} : NonEmpty(last.req, "familyEmail")}
                 \cup {c \in {"Notes"} : Has(last.req, "familyNotes")}
            /\ Has(rec.fields, "Email") => rec.fields["Email"] = last.req.familyEmail
            /\ Has(rec.fields, "Notes") => rec.fields["Notes"] = last.req.familyNotes

\* An empty familyNotes alone makes the family update go out.
C15_Witness ==
  /\ GuestUpdated /\ FamilyUpdateIssued
  /\ Has(last.req, "familyNotes") /\ last.req.familyNotes = ""
  /\ ~Has(last.req, "familyEmail")
  /\ last.calls[2].request.body.records[1].fields = ("Notes" :> "")

\* The guest update was issued and did not go through.
GuestUpdateFailed ==
  /\ IsRsvp(last) /\ last.impl = "current"
  /\ Len(last.calls) >= 1
  /\ LET r == last.calls[1].response
     IN r.rejected \/ ~r.ok \/ ~HasRecords(r)

\* C16: within one submit-RSVP the guest update is the first call; the
\* family update, if any, is the second and last call and is issued only
\* after a guest update that succeeded; a failed guest update ends the
\* request with a 500 and no family call.
C16_GuestFirst ==
  (IsRsvp(last) /\ last.impl = "current" /\ Len(last.calls) >= 1)
    => /\ last.calls[1].request.method = "PATCH"
       /\ last.calls[1].request.endpoint.table = TABLE_NAME
       /\ Len(last.calls) <= 2
       /\ Len(last.calls) = 2 => (FamilyUpdateIssued /\ GuestUpdated)
       /\ GuestUpdateFailed => (Status = 500 /\ Len(last.calls) = 1)

\* A request that carries family data and whose guest update the store
\* answered with a non-success status.
C16_Witness ==
  /\ GuestUpdateFailed /\ ~last.calls[1].response.rejected
  /\ NonEmpty(last.req, "familyId") /\ NonEmpty(last.req, "familyEmail")
  /\ last.req.guestId \in GuestIds
  /\ Status = 500 /\ Len(last.calls) = 1

\* ------------------------------------------------------------------------
\* Properties of sequences of requests

\* The identifiers of the records of a table of the store.
RecordIds(s, table) ==
  IF table = TABLE_NAME THEN DOMAIN s.guests ELSE DOMAIN s.families

SameRecordIds(s, t) ==
  DOMAIN s.guests = DOMAIN t.guests /\ DOMAIN s.families = DOMAIN t.families

IsGet(x) == x.request.method = "GET" /\ ~Has(x.request, "body")

\* A PATCH of exactly one record, named by its identifier.
IsPatchOfOne(x) ==
  /\ x.request.method = "PATCH"
  /\ Has(x.request, "body")
  /\ Len(x.request.body.records) = 1
  /\ Has(x.request.body.records[1], "id")

\* The identifier the request supplied for the table the call goes to.
SuppliedId(l, x) ==
  IF x.request.endpoint.table = TABLE_NAME THEN l.req.guestId ELSE l.req.familyId

\* C14 (as claimed): whatever the requests served, the record identifiers
\* of the store stay the same, and every call is a read or a PATCH addressed
\* to the identifier of an existing record.
C14_Claimed ==
  [][/\ SameRecordIds(store, store')
     /\ \A i \in 1..Len(last'.calls) :
          LET x == last'.calls[i]
          IN \/ IsGet(x)
             \/ /\ IsPatchOfOne(x)
                /\ x.request.body.records[1].id \in RecordIds(store, x.request.endpoint.table)]_vars

\* C14 (amended): the record identifiers of the store stay the same, and
\* every call is a read or a PATCH of one record addressed to the identifier
\* the client supplied, never a create or a delete; when that identifier is
\* of no record, the store refuses the update and no record changes.
C14_Amended ==
  [][/\ SameRecordIds(store, store')
     /\ \A i \in 1..Len(last'.calls) :
          LET x == last'.calls[i]
          IN \/ IsGet(x)
             \/ /\ IsPatchOfOne(x)
                /\ x.request.body.records[1].id = SuppliedId(last', x)
     /\ (IsRsvp(last') /\ Len(last'.calls) >= 1
           /\ last'.req.guestId \notin RecordIds(store, TABLE_NAME))
          => (store' = store /\ last'.response.status = 500)]_vars

\* Three requests served in a row: the first guest declined the reception
\* and left a dietary note, the second answered the ceremony, and the last
\* request named a record that does not exist.
C14_Witness ==
  /\ IsRsvp(last) /\ Has(last.req, "guestId") /\ last.req.guestId = DeletedGuest
  /\ Status = 500 /\ Len(last.calls) = 1 /\ IsPatchOfOne(last.calls[1])
  /\ Has(store.guests[1], "Lakodalom") /\ store.guests[1]["Lakodalom"] = FALSE
  /\ Has(store.guests[1], "Transfer") /\ Has(store.guests[1], "Dietary Restrictions")
  /\ store.guests[1]["Dietary Restrictions"] = "nut allergy"
  /\ Has(store.guests[2], "Szertartas") /\ store.guests[2]["Szertartas"] = TRUE
  /\ DOMAIN store.guests = GuestIds

\* The body lacks the required input of its route, or carries it empty.
MissingInput(l) ==
  \/ l.op = "verify-name" /\ (~Has(l.req, "name") \/ l.req.name = <<>>)
  \/ l.op = "rsvp" /\ (~Has(l.req, "guestId") \/ l.req.guestId = NoId)

\* C17: a verify-name with an empty or missing name and a submit-RSVP with
\* an empty or missing guestId are answered 400 before any call to the
\* store; nothing is written.
C17_Validation ==
  [][MissingInput(last') =>
       /\ last'.response.status = 400
       /\ last'.calls = <<>>
       /\ store' = store]_vars

\* An empty name refused after the store had taken an update.
C17_Witness ==
  /\ last.op = "verify-name" /\ Has(last.req, "name") /\ last.req.name = <<>>
  /\ Status = 400 /\ last.calls = <<>>
  /\ store \notin RsvpStores

\* ------------------------------------------------------------------------
\* Properties of the reshaping

\* The flag of the reshaped guest is the stored one, or d when the cell is
\* absent or null.
Defaulted(guest, key, rec, k, d) ==
  /\ Has(guest, key)
  /\ guest[key] = (IF Has(rec.fields, k) /\ k \notin rec.nulls THEN rec.fields[k] ELSE d)

\* No key of the reshaped guest is null.
NoNull(guest) == ~Has(guest, "nulls")

\* C18 (as claimed): whichever mapAirtableRecord reshapes the record, the
\* guest carries no null, Attending defaults to true, Szertartas, Lakodalom
\* and Transfer default to false, and a stored false stays false.
C18_Claimed ==
  last.op = "reshape" =>
    /\ NoNull(Body)
    /\ Defaulted(Body, "attending", store.returned, "Attending", TRUE)
    /\ Defaulted(Body, "szertartas", store.returned, "Szertartas", FALSE)
    /\ Defaulted(Body, "lakodalom", store.returned, "Lakodalom", FALSE)
    /\ Defaulted(Body, "transfer", store.returned, "Transfer", FALSE)

\* C18 (amended): as claimed for the current mapAirtableRecord.  That of
\* worker/index.ts defaults Attending alike, but has no szertartas,
\* lakodalom or transfer at all, and hands the Name cell over as it is: a
\* null Name is a null name.
C18_Amended ==
  last.op = "reshape" =>
    /\ Defaulted(Body, "attending", store.returned, "Attending", TRUE)
    /\ last.impl = "current" =>
         /\ NoNull(Body)
         /\ Defaulted(Body, "szertartas", store.returned, "Szertartas", FALSE)
         /\ Defaulted(Body, "lakodalom", store.returned, "Lakodalom", FALSE)
         /\ Defaulted(Body, "transfer", store.returned, "Transfer", FALSE)
    /\ last.impl = "legacy" =>
         /\ DOMAIN Body \cap {"szertartas", "lakodalom", "transfer"} = {}
         /\ NoNull(Body) <=> "Name" \notin store.returned.nulls

\* A record with a stored false, a null and an absent flag, reshaped by the
\* current mapAirtableRecord.
C18_Witness ==
  /\ last.op = "reshape" /\ last.impl = "current"
  /\ Has(store.returned.fields, "Attending") /\ "Attending" \notin store.returned.nulls
  /\ store.returned.fields["Attending"] = FALSE
  /\ "Szertartas" \in store.returned.nulls
  /\ ~Has(store.returned.fields, "Lakodalom")
  /\ "Name" \in store.returned.nulls
  /\ Body.attending = FALSE /\ Body.szertartas = FALSE /\ Body.lakodalom = FALSE
  /\ Body.name = <<>>

\* ------------------------------------------------------------------------
\* Calls issued per request

\* The kind of a backing-store call: guest search, family fetch, member
\* fetch, guest update, family update, or list.
KindOf(x) ==
  LET r == x.request
  IN IF r.method = "PATCH"
       THEN (IF r.endpoint.table = TABLE_NAME THEN "guest update" ELSE "family update")
     ELSE IF Has(r.endpoint, "record") THEN "family fetch"
     ELSE IF ~Has(r.endpoint, "filter") THEN "list"
     ELSE IF r.endpoint.filter.f = "OrRecordId" THEN "member fetch"
     ELSE IF r.endpoint.filter.f = "Eq" THEN "list"
     ELSE "guest search"

\* The call did not succeed: the fetch rejected or the status was not ok.
CallFailed(x) == x.response.rejected \/ ~x.response.ok

\* C21: within one request every kind of backing-store call (guest search,
\* family fetch, member fetch, guest update, family update, list) is issued
\* at most once, also when it failed: no call is retried.
C21_NoRetry ==
  last.impl = "current" =>
    \A i, j \in 1..Len(last.calls) :
      KindOf(last.calls[i]) = KindOf(last.calls[j]) => i = j

\* A request whose last call failed and was issued once: a list, a family
\* update or a member fetch.
C21_Witness ==
  /\ last.impl = "current"
  /\ Len(last.calls) >= 1
  /\ CallFailed(last.calls[Len(last.calls)])
  /\ KindOf(last.calls[Len(last.calls)]) \in {"list", "family update", "member fetch"}
  /\ \A i \in 1..(Len(last.calls) - 1) :
       KindOf(last.calls[i]) # KindOf(last.calls[Len(last.calls)])

\* ------------------------------------------------------------------------
\* The access key

\* The calls of the request went out with the key of the deployment.
CallsCarryKey ==
  \A i \in 1..Len(last.calls) :
    last.calls[i].request.headers.Authorization = <<"Bearer", last.env.AIRTABLE_API_KEY>>

IdsOf(guests) == {guests[i].id : i \in 1..Len(guests)}

\* The stored guests whose cell `column` holds `value`.
GuestsWith(column, value) ==
  {g \in GuestIds : Has(store.guests[g], column) /\ store.guests[g][column] = value}

\* verify-name of worker/index.ts found the name, and the lookup of the
\* group, when one was issued, was answered with records.
LegacyFoundGroup ==
  /\ IsVerify /\ last.impl = "legacy" /\ Status = 200
  /\ Len(last.calls) = 2 => Has(last.calls[2].response.json, "records")

Resumes == last.results # NoBatch /\ last'.results = NoBatch

\* The first rejected request of the batch, in request order.
FirstFailed(results) ==
  CHOOSE i \in 1..Len(results) :
    /\ results[i].status = "rejected"
    /\ \A j \in 1..(i - 1) : results[j].status # "rejected"

SomeFailed(results) == \E i \in 1..Len(results) : results[i].status = "rejected"

\* C23: the requests of the family members are all dispatched in one step,
\* none waiting for another; and when one or more were rejected, the message
\* shown is that of the first rejected request in request order and the
\* handler leaves the step as it is.
C23_FirstFailure ==
  [][/\ (last.results = NoBatch /\ last'.results # NoBatch) =>
          /\ Len(last'.results) = Len(last.familyMembers)
          /\ Len(last'.results) > 0
          /\ \A i \in 1..Len(last'.results) :
               /\ last'.results[i].status = "pending"
               /\ last'.results[i].request.guestId = last.familyMembers[i].id
     /\ (Resumes /\ SomeFailed(last.results)) =>
          /\ last'.submitErrorMessage =
               ErrorMessage(last.results[FirstFailed(last.results)].value)
          /\ last'.step = last.step]_vars

\* A batch of two requests, both rejected, with different messages.
C23_Witness ==
  /\ Len(last.results) = 2
  /\ last.step = "rsvp"
  /\ last.results[1].status = "rejected" /\ last.results[2].status = "rejected"
  /\ ErrorMessage(last.results[1].value) # ErrorMessage(last.results[2].value)

\* C24 as stated: the step flow has no cycles: from rsvp or success the
\* form never returns to verify.
C24_Claimed ==
  [][last.step \in {"rsvp", "success"} => last'.step # "verify"]_vars

\* The verify-name response arriving in this step opens the rsvp step.
VerificationSucceeds ==
  /\ last.verifying # NotVerifying
  /\ last.verifying[1].status = 200

\* Every request of the batch was fulfilled with success = true.
AllFulfilled(results) ==
  \A i \in 1..Len(results) :
    /\ results[i].status = "fulfilled"
    /\ Has(results[i].value, "success")
    /\ results[i].value.success

\* C24, amended: the step flow has cycles.  The form returns to verify, from
\* rsvp by the back button and from success by the new-response button,
\* whenever its data is cleared; the rsvp step is entered only when a
\* verification succeeds, and the success step only when a batch completes.
C24_Amended ==
  [][/\ (last.rsvpData # EmptyObj /\ last'.rsvpData = EmptyObj) => last'.step = "verify"
     /\ (last'.step # last.step) =>
          \/ last'.step = "verify" /\ last.step \in {"rsvp", "success"}
                                  /\ last'.rsvpData = EmptyObj
          \/ last'.step = "rsvp" /\ VerificationSucceeds
          \/ last'.step = "success" /\ Resumes /\ AllFulfilled(last.results)]_vars

\* The verify step entered again, after a batch was sent from the rsvp step.
C24_Witness == last.step = "verify" /\ last.batches > 0 /\ last.results = NoBatch

\* C26 as stated: the success step is entered only from the rsvp step; the
\* step never changes from verify directly to success.
C26_Claimed == [][~(last.step = "verify" /\ last'.step = "success")]_vars

\* The guest cells the store holds are the values the request submitted.
HoldsSubmitted(s, request) ==
  /\ request.guestId \in DOMAIN s.guests
  /\ \A k \in GuestKeys :
       /\ Has(s.guests[request.guestId], Column(k))
       /\ s.guests[request.guestId][Column(k)] = request[k]

\* C27: the form shows the success step only if every request of the batch
\* was fulfilled with success = true; and then every member's guest record
\* in the store holds the attendance values submitted for it.
C27_SuccessOnlyIfAll ==
  [][(last'.step = "success" /\ last.step # "success") =>
       /\ Resumes
       /\ AllFulfilled(last.results)
       /\ \A i \in 1..Len(last.results) : HoldsSubmitted(store, last.results[i].request)]_vars

\* The success step shown after a batch.
C27_Witness ==
  /\ last.step = "success"
  /\ last.batches = 1
  /\ \A g \in {FormMembers[i] : i \in 1..Len(FormMembers)} :
       \A k \in GuestKeys : Has(store.guests[g], Column(k))

\* C28: every invocation of the submit handler resets isSubmitting to false
\* in the end, whichever way the batch goes, provided every dispatched
\* request settles.
C28_Resets == last.isSubmitting ~> ~last.isSubmitting

\* A handler waiting for its batch, one request of which already failed.
C28_Witness ==
  /\ last.isSubmitting
  /\ \E i, j \in 1..Len(last.results) :
       last.results[i].status = "rejected" /\ last.results[j].status = "pending"

\* The members whose data the form holds before and after the step.
Shown == (DOMAIN last.rsvpData) \cap (DOMAIN last'.rsvpData)

\* C29: unchecking a member's reception box sets the member's dietary note
\* to the empty string, transfer to false and the has-dietary flag to false;
\* and every edit of one member's data leaves the data of every other
\* member as it was.
C29_Frame ==
  [][\A id \in Shown :
       /\ (last.rsvpData[id].lakodalom /\ ~last'.rsvpData[id].lakodalom) =>
            /\ last'.rsvpData[id].dietaryRestrictions = ""
            /\ ~last'.rsvpData[id].transfer
            /\ ~last'.hasDietaryRestrictions[id]
       /\ (last'.rsvpData[id] # last.rsvpData[id]) =>
            \A other \in Shown \ {id} :
              /\ last'.rsvpData[other] = last.rsvpData[other]
              /\ last'.hasDietaryRestrictions[other] = last.hasDietaryRestrictions[other]]_vars

\* The first member's reception unchecked, its note and has-dietary flag
\* gone, the second member as verified.
C29_Witness ==
  /\ last.step = "rsvp"
  /\ 1 \in DOMAIN last.rsvpData /\ 2 \in DOMAIN last.rsvpData
  /\ last.familyMembers[1].lakodalom
  /\ Has(last.familyMembers[1], "dietaryRestrictions")
  /\ ~last.rsvpData[1].lakodalom
  /\ last.rsvpData[1].dietaryRestrictions = ""
  /\ ~last.hasDietaryRestrictions[1]
  /\ last.rsvpData[2] = InitialRsvpData(last.familyMembers)[2]

\* The request in slot i was sent from the form as the verification filled
\* it in, for a member the store still holds as the verification read it.
SentUnedited(i) ==
  /\ last.step = "rsvp"
  /\ last.rsvpData = InitialRsvpData(last.familyMembers)
  /\ i \in 1..Len(last.familyMembers)
  /\ last.results[i].request.guestId = last.familyMembers[i].id
  /\ \A k \in GuestKeys :
       last.results[i].request[k] = last.rsvpData[last.familyMembers[i].id][k]
  /\ mapAirtableRecord(GuestRecord(store, last.familyMembers[i].id)) = last.familyMembers[i]

\* The flag a guest record holds: a checkbox cell that is absent is unchecked.
StoredFlag(s, g, k) == Cell(s.guests[g], Column(k), FALSE)

\* The note a guest record holds, an absent one read as empty.
StoredNote(s, g) == Cell(s.guests[g], "Dietary Restrictions", "")

\* C30: verifying a name and submitting without editing a member's choices
\* is a no-op on guest data: when such a request is served, the member's
\* stored ceremony, reception and transfer flags are unchanged and so is the
\* stored dietary note (an absent note stays absent or becomes empty).
C30_NoOp ==
  [][\A i \in 1..Len(last.results) :
       (/\ last.results[i].status = "pending"
        /\ Len(last'.results) = Len(last.results)
        /\ last'.results[i].status # "pending"
        /\ SentUnedited(i)) =>
         LET g == last.results[i].request.guestId
         IN /\ \A k \in {"szertartas", "lakodalom", "transfer"} :
                 StoredFlag(store', g, k) = StoredFlag(store, g, k)
            /\ StoredNote(store', g) = StoredNote(store, g)
            /\ \A h \in GuestIds \ {g} : store'.guests[h] = store.guests[h]]_vars

\* An unedited request of the second member, who had answered neither the
\* reception nor the transfer, served: the record now holds all four cells.
C30_Witness ==
  /\ last.step = "rsvp"
  /\ last.rsvpData = InitialRsvpData(last.familyMembers)
  /\ Len(last.results) = 2
  /\ last.results[2].status = "fulfilled"
  /\ Has(last.results[2].value, "guest")
  /\ ~Has(last.familyMembers[2], "dietaryRestrictions")
  /\ \A k \in GuestKeys : Has(store.guests[2], Column(k))
  /\ ~store.guests[2]["Lakodalom"]

====
